---- MODULE Spec2Model ----
(***************************************************************************)
(* DiskStore (src/src/diskstore/diskstore.py) over one SQLite file in WAL  *)
(* mode: the table, the engine's single write lock, the store's            *)
(* transaction-owner marker and the threads that call the store.           *)
(***************************************************************************)
EXTENDS Integers, Sequences, FiniteSets, TLC

\* ---------------------------------------------------------------- bounds
NumThreads == 2
NumKeys == 2
NumValues == 2
\* API calls started in one run
MaxCalls == 3
\* depth of nested transact scopes of one thread
MaxDepth == 2
\* steps of the clock in one run
MaxTicks == 4

\* ------------------------------------------------------ program constants
\* const.py: TIMEOUT = 60.0  (seconds)
TIMEOUT == 60
\* the clock advances by half of it, up to the last instant of a run
TickStep == TIMEOUT \div 2
MaxTime == MaxTicks * TickStep
\* Python's None: the cleared owner marker, add's "no row" result
None == 0
\* const.py: MISSING = object(); also "the statement returned no row"
MISSING == -1

Threads == 1..NumThreads
Keys == 1..NumKeys
\* instances of the store's value class
Values == 1..NumValues
\* the timeout argument of DiskStore(...), in seconds
Timeouts == {TickStep, TIMEOUT}
\* the default argument of pop
Defaults == {MISSING, None}

\* ------------------------------------------------- the table (rowid order)
Row(k, v) == [key |-> k, value |-> v]

HasKey(tbl, k) == \E i \in 1..Len(tbl) : tbl[i].key = k

IndexOf(tbl, k) == CHOOSE i \in 1..Len(tbl) : tbl[i].key = k

\* "SELECT value FROM t WHERE _key = ? LIMIT 1": the value, or no row
GET(tbl, k) == IF HasKey(tbl, k) THEN tbl[IndexOf(tbl, k)].value ELSE MISSING

\* "SELECT _key FROM t WHERE _key = ? LIMIT 1", fetchall
CONTAINS(tbl, k) == IF HasKey(tbl, k) THEN <<k>> ELSE <<>>

\* "SELECT COUNT (_key) FROM t"
COUNT(tbl) == Len(tbl)

\* variant: an insert that leaves a present key alone
SET_DoNothing(tbl, k, v) ==
    IF HasKey(tbl, k) THEN tbl ELSE Append(tbl, Row(k, v))

\* "INSERT INTO t(_key, value) VALUES (?, ?)
\*    ON CONFLICT (_key) DO UPDATE SET value = excluded.value"
SET(tbl, k, v) ==
    IF HasKey(tbl, k)
    THEN [tbl EXCEPT ![IndexOf(tbl, k)].value = v]
    ELSE Append(tbl, Row(k, v))

\* variant: an insert that replaces the value of a present key
ADD_Replace(tbl, k, v) ==
    [tbl |-> SET(tbl, k, v), rows |-> <<k>>]

\* "INSERT INTO t(_key, value) VALUES (?, ?) ON CONFLICT DO NOTHING
\*    RETURNING _key": the table afterwards, and the rows returned
ADD(tbl, k, v) ==
    IF HasKey(tbl, k)
    THEN [tbl |-> tbl, rows |-> <<>>]
    ELSE [tbl |-> Append(tbl, Row(k, v)), rows |-> <<k>>]

\* variant: a delete without the WHERE clause's key, removing the first row
DELETE_First(tbl, k) ==
    [tbl |-> IF tbl = <<>> THEN tbl ELSE Tail(tbl),
     rows |-> IF HasKey(tbl, k) THEN <<k>> ELSE <<>>]

\* "DELETE FROM t WHERE _key = ? RETURNING _key"
DELETE(tbl, k) ==
    [tbl |-> SelectSeq(tbl, LAMBDA r : r.key # k),
     rows |-> IF HasKey(tbl, k) THEN <<k>> ELSE <<>>]

\* DiskRead.__getitem__: the value; MISSING stands for raising KeyError
getitem(tbl, k) == GET(tbl, k)

\* DiskRead.__contains__
contains(tbl, k) == CONTAINS(tbl, k) # <<>>

\* DiskRead.__len__
len(tbl) == COUNT(tbl)

\* the keys of a table, as a set
KeySet(tbl) == {tbl[i].key : i \in 1..Len(tbl)}

\* DiskStore.update's executemany(SET, pairs): one SET per pair, in order
RECURSIVE SetMany(_, _)
SetMany(tbl, pairs) ==
    IF pairs = <<>> THEN tbl
    ELSE SetMany(SET(tbl, Head(pairs).key, Head(pairs).value), Tail(pairs))

\* the pairs one update call may carry
MaxPairs == 1
Pairs == {Row(k, v) : k \in Keys, v \in Values}
PairSeqs == UNION {[1..n -> Pairs] : n \in 0..MaxPairs}

\* ------------------------------------------------------------------ state
VARIABLES
    db,           \* the committed table, as every connection outside a transaction reads it
    work,         \* the table as the connection holding the write lock sees it
    lock,         \* the thread whose connection holds the engine's write lock, or None
    txn_id,       \* DiskStore._txn_id
    timeout,      \* DiskStore._timeout, the busy timeout of every connection
    now,          \* time()
    calls,        \* API calls started so far
    pc,           \* where each thread is
    scopes,       \* each thread's open transact scopes, outermost first
    exc,          \* the exception in flight in each thread, or ""
    call,         \* the API call each thread is executing
    retry_until,  \* transact's local retry_until
    attempt,      \* when the statement a thread waits on was issued
    wr,           \* history: what the open transaction wrote so far
    added,        \* history: per key, the add calls that returned it since it was absent
    ev,           \* history: the API call or scope exit the last step completed
    key_type,     \* DiskStore.__init__'s primary_key_type
    tab,          \* the table with its rowids, in rowid order (single-threaded runs)
    od,           \* an insertion-ordered dictionary given the same calls as the store
    res,          \* history: the last call of a single-threaded run and its results
    nops,         \* calls made so far in a single-threaded run
    upd,          \* each thread's running update: the pairs given and those still to set
    alive,        \* the processes that hold the store object
    local,        \* DiskRead._local of each process, per thread: its pid and con
    conns,        \* every connection opened so far, with who opened it
    handles,      \* the open connection handles: process, holding thread, connection
    cur,          \* the cursor of each thread's open transact scope: its connection
    cev,          \* history: what the last step did with a connection
    klass,        \* the class of the store object, "" before it is constructed
    file,         \* the backing file: "absent", "empty" (no table) or "table"
    pragmas,      \* DiskStore._pragmas
    taken,        \* history: the entries pop and popitem returned, with their callers
    default_expiration,  \* DiskCache._default_expiration
    columns,      \* the value columns of the table, in the order they were added
    stores,       \* the value classes DiskStore instances were constructed with
    declared,     \* the columns of the table that carry a DEFAULT clause
    filename,     \* DiskRead._filename: "file" for a path, ":memory:" or ""
    begun,        \* the connections with an open transaction
    marker,       \* DiskStore._txn_id of each store object or copy of it
    frames        \* the open transact scopes of a thread, innermost last

\* the state of a single-threaded run of one store with a declared key type
seqVars == <<key_type, tab, od, res, nops>>

\* no update is running
NoUpdate == [other |-> <<>>, kwargs |-> <<>>, todo |-> <<>>, pre |-> <<>>]

\* what the threads sharing a default store leave alone
\* the connections of the store object, in every process that holds it
conVars == <<alive, local, conns, handles, cur, cev, klass, file, pragmas>>

\* what only the runs of one kind of call use
\* the stores of one thread, and those opened on a database of their own
late == <<filename, begun, marker, frames>>

\* one store on a file, shared by threads, with no transaction open
LateIdle ==
    /\ filename = "file"
    /\ begun = {}
    /\ marker = <<>>
    /\ frames = <<>>

more == <<taken, default_expiration, columns, stores, declared, late>>

\* no cache, no value class but the default, nothing popped
EarlyIdle ==
    /\ taken = <<>>
    /\ default_expiration = TIMEOUT
    /\ columns = <<>>
    /\ stores = {}
    /\ declared = {}

\* nothing of it is in use
MoreIdle == EarlyIdle /\ LateIdle

\* what the runs of the stores of one thread, and of those on a database of their
\* own, leave alone
early == <<seqVars, upd, conVars, taken, default_expiration, columns, stores, declared>>

aux == <<seqVars, upd, conVars, more>>

vars == <<db, work, lock, txn_id, timeout, now, calls, pc, scopes, exc, call,
          retry_until, attempt, wr, added, ev, aux>>

NoCall == [op |-> "", key |-> None, value |-> None, pairs |-> <<>>, retry |-> FALSE,
           entered |-> 0]

NoWrites == [k \in Keys |-> [val |-> None, depth |-> 0]]

NoEv == [what |-> "", tid |-> None, op |-> "", key |-> None, value |-> None,
         pairs |-> <<>>, retry |-> FALSE, entered |-> 0, ret |-> None, exc |-> "",
         sql |-> "", begin |-> FALSE, retried |-> FALSE, until |-> 0, pre |-> <<>>,
         held |-> <<>>, wr |-> NoWrites, depth |-> 0, store |-> None]

\* the event "thread t completed call c": what happened ("stmt": its statement ran,
\* "begin": its scope was entered with BEGIN, "leave": its scope was left, "busy":
\* BusyError), its result, its exception, the transaction statement issued (sql), the
\* table t saw before it (pre), what its transaction had written (w), and the depth t
\* is left at; store is the store object called, where a thread has several
Event(what, t, c, ret, e, sql, pre, w, d) ==
    [NoEv EXCEPT !.what = what, !.tid = t, !.op = c.op, !.key = c.key,
                 !.value = c.value, !.pairs = c.pairs, !.retry = c.retry,
                 !.entered = c.entered, !.ret = ret, !.exc = e, !.sql = sql,
                 !.pre = pre, !.wr = w, !.depth = d]

\* what thread t's connection reads
View(t) == IF lock = t THEN work ELSE db

Top(t) == scopes[t][Len(scopes[t])]

\* variant: a scope whose local "begin" is always true
Frame_Begins(kind, begin, pre) == [kind |-> kind, begin |-> TRUE, pre |-> pre]

\* an open transact scope: who opened it (the caller's with-block, pop or update),
\* its local "begin", and (history) the committed table when it issued BEGIN
Frame(kind, begin, pre) == [kind |-> kind, begin |-> begin, pre |-> pre]

\* history: a write of key k (MISSING: removed) at depth d
Note(w, d, k, v) == [w EXCEPT ![k] = [val |-> v, depth |-> d]]

RECURSIVE NoteMany(_, _, _)
NoteMany(w, d, pairs) ==
    IF pairs = <<>> THEN w
    ELSE NoteMany(Note(w, d, Head(pairs).key, Head(pairs).value), d, Tail(pairs))

\* the threads' part of the state
storeVars == <<db, work, lock, txn_id, timeout, now, calls, pc, scopes, exc, call,
               retry_until, attempt, wr, added, ev>>

\* no thread has called the store yet
ThreadsIdle ==
    /\ work = <<>>
    /\ lock = None
    /\ txn_id = None
    /\ timeout = TIMEOUT
    /\ now = 0
    /\ calls = 0
    /\ pc = [t \in Threads |-> "run"]
    /\ scopes = [t \in Threads |-> <<>>]
    /\ exc = [t \in Threads |-> ""]
    /\ call = [t \in Threads |-> NoCall]
    /\ retry_until = [t \in Threads |-> 0]
    /\ attempt = [t \in Threads |-> 0]
    /\ wr = NoWrites
    /\ added = [k \in Keys |-> {}]
    /\ ev = NoEv

\* a new store nobody has called yet
StoreIdle == db = <<>> /\ ThreadsIdle

\* history of a single-threaded run: the last call (op, key, value), the call before
\* it (prev), what the store returned and raised (ret, exc), what the dictionary
\* returned and raised (ref, refexc), the table and the dictionary before the call
\* (pre, preod), the length of the table before the call before it (prevlen), and
\* whether every writing call so far inserted a new key (fresh)
NoRes == [op |-> "", key |-> None, value |-> None,
          prev |-> [op |-> "", key |-> None, value |-> None], prevlen |-> 0,
          ret |-> <<>>, exc |-> "", ref |-> <<>>, refexc |-> "",
          pre |-> <<>>, preod |-> <<>>, fresh |-> TRUE]

\* no single-threaded run
SeqIdle ==
    /\ key_type = "BLOB"
    /\ tab = <<>>
    /\ od = <<>>
    /\ res = NoRes
    /\ nops = 0

\* the processes that may come to hold the store object: the one that constructs
\* it, and those forked with it
MaxProcs == 2
Procs == 1..MaxProcs

\* connections opened in one run
MaxCons == 3

\* a thread's "self._local" before its first access: no pid, no con
NoLocal == [pid |-> None, con |-> None]

\* const.DEFAULT_PRAGMAS
DEFAULT_PRAGMAS == [auto_vacuum |-> 0, cache_size |-> 2^13, journal_mode |-> "wal",
                    mmap_size |-> 2^28, synchronous |-> 1, temp_store |-> "memory"]

\* the "**pragmas" of the runs: none, or the override of a default with a pragma
\* that is not among the defaults
NoPragmas == [x \in {} |-> None]
Options == {NoPragmas, [synchronous |-> 0, foreign_keys |-> 1]}

\* dict.update: a with the items of b
Updated(a, b) ==
    [x \in DOMAIN a \cup DOMAIN b |-> IF x \in DOMAIN b THEN b[x] ELSE a[x]]

NoCev == [what |-> "", proc |-> None, tid |-> None, con |-> None, had |-> NoLocal,
          made |-> FALSE, saw |-> <<>>, opts |-> NoPragmas]

\* DiskStore.__init__ in thread 1 of process 1 without options: "sql =
\* self._con.execute" opens the constructing thread's connection; no other thread
\* has touched the store
ConIdle ==
    /\ alive = {1}
    /\ local = [p \in Procs |-> [t \in Threads |->
                  IF p = 1 /\ t = 1 THEN [pid |-> 1, con |-> 1] ELSE NoLocal]]
    /\ conns = <<[proc |-> 1, tid |-> 1, pragmas |-> DEFAULT_PRAGMAS,
                  readonly |-> FALSE]>>
    /\ handles = {<<1, 1, 1>>}
    /\ cur = [p \in Procs |-> [t \in Threads |-> None]]
    /\ cev = NoCev
    /\ klass = "DiskStore"
    /\ file = "table"
    /\ pragmas = DEFAULT_PRAGMAS

Init ==
    /\ SeqIdle
    /\ ConIdle
    /\ MoreIdle
    /\ upd = [t \in Threads |-> NoUpdate]
    /\ db = <<>>
    /\ work = <<>>
    /\ lock = None
    /\ txn_id = None
    /\ timeout \in Timeouts
    /\ now = 0
    /\ calls = 0
    /\ pc = [t \in Threads |-> "run"]
    /\ scopes = [t \in Threads |-> <<>>]
    /\ exc = [t \in Threads |-> ""]
    /\ call = [t \in Threads |-> NoCall]
    /\ retry_until = [t \in Threads |-> 0]
    /\ attempt = [t \in Threads |-> 0]
    /\ wr = NoWrites
    /\ added = [k \in Keys |-> {}]
    /\ ev = NoEv

\* a thread waits for the write lock
Waiting(t) == pc[t] \in {"stmt", "begin"}

\* time passes (it is observed only by the threads that wait)
Tick ==
    /\ UNCHANGED aux
    /\ \E t \in Threads : Waiting(t)
    /\ now + TickStep <= MaxTime
    /\ now' = now + TickStep
    /\ ev' = NoEv
    /\ UNCHANGED <<db, work, lock, txn_id, timeout, calls, pc, scopes, exc, call,
                   retry_until, attempt, wr, added>>

\* thread t may start a call: it runs at top level or in the body of a scope
\* it opened with "with store.transact()", and no exception is in flight
CanCall(t) ==
    /\ pc[t] = "run"
    /\ exc[t] = ""
    /\ calls < MaxCalls
    /\ scopes[t] # <<>> => Top(t).kind = "transact"

\* variant: every statement is committed as it runs
Write_Autocommit(t, tbl) == db' = tbl /\ work' = work

\* the statement of thread t writes: into its open transaction, or autocommitted
Write(t, tbl) ==
    IF lock = t
    THEN work' = tbl /\ db' = db
    ELSE db' = tbl /\ work' = work

\* the statement of __setitem__, add, __delitem__ or clear runs, and the call returns
\* or raises
StmtEffect(t, c) ==
    LET v == View(t)
        d == Len(scopes[t])
        r == CASE c.op = "set" -> [tbl |-> SET(v, c.key, c.value), rows |-> <<>>]
               [] c.op = "add" -> ADD(v, c.key, c.value)
               [] c.op = "delete" -> DELETE(v, c.key)
               \* "CLEAR": "DELETE FROM {tablename};VACUUM;"
               [] c.op = "clear" -> [tbl |-> <<>>, rows |-> <<>>]
        \* add: "if not rows: return None; return rows[0][0]"
        ret == IF c.op = "add" /\ r.rows # <<>> THEN r.rows[1] ELSE None
        \* __delitem__: "if not rows: raise KeyError(key)"
        \* clear: the DELETE has run, and VACUUM fails in an open transaction with
        \* "cannot VACUUM from within a transaction"
        e == CASE c.op = "delete" /\ r.rows = <<>> -> "KeyError"
               [] c.op = "clear" /\ lock = t -> "SQLError"
               [] OTHER -> ""
        w == IF lock # t THEN wr
             ELSE CASE c.op = "set" -> Note(wr, d, c.key, c.value)
                    [] c.op = "add" ->
                         IF r.rows # <<>> THEN Note(wr, d, c.key, c.value) ELSE wr
                    [] c.op = "delete" ->
                         IF r.rows # <<>> THEN Note(wr, d, c.key, MISSING) ELSE wr
                    [] c.op = "clear" ->
                         [k \in Keys |-> IF contains(v, k)
                                         THEN [val |-> MISSING, depth |-> d] ELSE wr[k]]
    IN /\ Write(t, r.tbl)
       /\ exc' = [exc EXCEPT ![t] = e]
       /\ wr' = w
       /\ added' = IF c.op = "clear" THEN [k \in Keys |-> {}]
                   ELSE [added EXCEPT ![c.key] =
                           CASE c.op = "add" /\ r.rows # <<>> -> @ \cup {<<t, c.value>>}
                             [] c.op = "add" /\ r.rows = <<>> -> @
                             [] OTHER -> {}]
       /\ ev' = Event("stmt", t, c, ret, e, "", v, w, d)

\* __setitem__, add, __delitem__: the statement runs at once when the write lock is
\* free or the thread's own, and waits for it otherwise
CallStmt(t, c) ==
    /\ UNCHANGED aux
    /\ CanCall(t)
    /\ calls' = calls + 1
    /\ IF lock \in {None, t}
       THEN /\ StmtEffect(t, c)
            /\ UNCHANGED <<pc, call, attempt>>
       ELSE /\ now + timeout <= MaxTime
            /\ pc' = [pc EXCEPT ![t] = "stmt"]
            /\ call' = [call EXCEPT ![t] = c]
            /\ attempt' = [attempt EXCEPT ![t] = now]
            /\ ev' = NoEv
            /\ UNCHANGED <<db, work, exc, wr, added>>
    /\ UNCHANGED <<lock, txn_id, timeout, now, scopes, retry_until>>

\* DiskStore.__setitem__
setitem(t, k, v) == CallStmt(t, [NoCall EXCEPT !.op = "set", !.key = k, !.value = v])

\* DiskStore.add
add(t, k, v) == CallStmt(t, [NoCall EXCEPT !.op = "add", !.key = k, !.value = v])

\* DiskStore.__delitem__
delitem(t, k) == CallStmt(t, [NoCall EXCEPT !.op = "delete", !.key = k])

\* DiskStore.clear: "self._con.execute(self._statements["CLEAR"])"
clear(t) == CallStmt(t, [NoCall EXCEPT !.op = "clear"])

\* the waiting statement gets the write lock
ExecStmt(t) ==
    /\ UNCHANGED aux
    /\ pc[t] = "stmt"
    /\ lock \in {None, t}
    /\ StmtEffect(t, call[t])
    /\ pc' = [pc EXCEPT ![t] = "run"]
    /\ call' = [call EXCEPT ![t] = NoCall]
    /\ attempt' = [attempt EXCEPT ![t] = 0]
    /\ UNCHANGED <<lock, txn_id, timeout, now, calls, scopes, retry_until>>

\* the statement waited the connection's busy timeout for the write lock
\* another connection holds: BusyError
StmtBusy(t) ==
    /\ UNCHANGED aux
    /\ pc[t] = "stmt"
    /\ lock \notin {None, t}
    /\ now >= attempt[t] + timeout
    /\ exc' = [exc EXCEPT ![t] = "BusyError"]
    /\ ev' = [Event("busy", t, call[t], None, "BusyError", "", View(t), wr,
                     Len(scopes[t]))
                 EXCEPT !.held = work]
    /\ pc' = [pc EXCEPT ![t] = "run"]
    /\ call' = [call EXCEPT ![t] = NoCall]
    /\ attempt' = [attempt EXCEPT ![t] = 0]
    /\ UNCHANGED <<db, work, lock, txn_id, timeout, now, calls, scopes, retry_until, wr,
                   added>>

\* ------------------------------------------------------------- transact
\* variant: every scope takes itself for the outermost
AlreadyInside_Never(t) == FALSE

\* variant: any thread's transaction counts
AlreadyInside_AnyOwner(t) == txn_id # None

\* "if tid == txn_id:  # already inside a thread with a transaction"
AlreadyInside(t) == txn_id = t

\* "retry_until = time() + TIMEOUT"
RetryUntil == now + TIMEOUT

\* variant: the loop goes round again whatever the caller asked for
ShouldRetry_AnyCaller(t) == now < retry_until[t]

\* variant: the loop never goes round again
ShouldRetry_Never(t) == FALSE

\* "if retry and time() < retry_until"
ShouldRetry(t) == call[t].retry /\ now < retry_until[t]

\* variant: the scope always commits
EndStatement_Commit(e) == "COMMIT"

\* variant: the scope always rolls back
EndStatement_Rollback(e) == "ROLLBACK"

\* the statement that ends the transaction when the scope is left with exception e
\* ("" for none): "except BaseException: ... ROLLBACK", "else: ... COMMIT"
EndStatement(e) == IF e = "" THEN "COMMIT" ELSE "ROLLBACK"

\* where the body of a scope runs: the caller's with-block, or pop's / update's own
BodyPc(op) == IF op = "transact" THEN "run" ELSE "body"

\* the call a thread in the body of a scope is executing
BodyCall(c) == IF c.op = "transact" THEN NoCall ELSE c

\* cursor.execute("BEGIN IMMEDIATE") takes the write lock, then
\* "begin = True; self._txn_id = tid; break" and "yield cursor"
Begun(t, c, retried) ==
    /\ lock' = t
    /\ work' = db
    /\ txn_id' = t
    /\ scopes' = [scopes EXCEPT ![t] = Append(@, Frame(c.op, TRUE, db))]
    /\ wr' = NoWrites
    /\ pc' = [pc EXCEPT ![t] = BodyPc(c.op)]
    /\ call' = [call EXCEPT ![t] = BodyCall(c)]
    /\ ev' = [Event("begin", t, c, None, "", "BEGIN", db, NoWrites, Len(scopes[t]) + 1)
                EXCEPT !.begin = TRUE, !.retried = retried, !.until = retry_until[t]]

\* transact up to its first BEGIN IMMEDIATE: a nested scope, a transaction begun at
\* once, or the write lock is another connection's and the statement waits
Enter(t, c) ==
    /\ CanCall(t)
    /\ Len(scopes[t]) < MaxDepth
    /\ calls' = calls + 1
    /\ IF AlreadyInside(t)
       THEN /\ scopes' = [scopes EXCEPT ![t] = Append(@, Frame(c.op, FALSE, <<>>))]
            /\ pc' = [pc EXCEPT ![t] = BodyPc(c.op)]
            /\ call' = [call EXCEPT ![t] = BodyCall(c)]
            /\ ev' = NoEv
            /\ UNCHANGED <<work, lock, txn_id, wr, retry_until, attempt>>
       ELSE IF lock = None
       THEN /\ Begun(t, c, FALSE)
            /\ UNCHANGED <<retry_until, attempt>>
       ELSE /\ now + TIMEOUT + timeout <= MaxTime
            /\ pc' = [pc EXCEPT ![t] = "begin"]
            /\ call' = [call EXCEPT ![t] = [c EXCEPT !.entered = now]]
            /\ retry_until' = [retry_until EXCEPT ![t] = RetryUntil]
            /\ attempt' = [attempt EXCEPT ![t] = now]
            /\ ev' = NoEv
            /\ UNCHANGED <<work, lock, txn_id, wr, scopes>>
    /\ UNCHANGED <<db, timeout, now, exc, added>>

\* "with store.transact(retry):"
transact(t, retry) ==
    /\ Enter(t, [NoCall EXCEPT !.op = "transact", !.retry = retry])
    /\ UNCHANGED aux

\* DiskStore.pop: "with self.transact(retry=True) as cx:"
pop(t, k, default) ==
    /\ Enter(t, [NoCall EXCEPT !.op = "pop", !.key = k, !.value = default,
                                !.retry = TRUE])
    /\ UNCHANGED aux

\* DiskStore.update: "with self.transact(retry=True) as cursor:"
update(t, other) ==
    /\ Enter(t, [NoCall EXCEPT !.op = "update", !.pairs = other, !.retry = TRUE])
    /\ UNCHANGED aux

\* the waiting BEGIN IMMEDIATE gets the write lock
BeginImmediate(t) ==
    /\ UNCHANGED aux
    /\ pc[t] = "begin"
    /\ lock = None
    /\ Begun(t, call[t], attempt[t] # call[t].entered)
    /\ retry_until' = [retry_until EXCEPT ![t] = 0]
    /\ attempt' = [attempt EXCEPT ![t] = 0]
    /\ UNCHANGED <<db, timeout, now, calls, exc, added>>

\* BEGIN IMMEDIATE waited the busy timeout for a lock another connection holds:
\* BusyError, then "sleep(0.001); continue" or "raise"
BeginBusy(t) ==
    /\ UNCHANGED aux
    /\ pc[t] = "begin"
    /\ lock \notin {None, t}
    /\ now >= attempt[t] + timeout
    /\ IF ShouldRetry(t)
       THEN /\ attempt' = [attempt EXCEPT ![t] = now]
            /\ ev' = NoEv
            /\ UNCHANGED <<pc, exc, call, retry_until>>
       ELSE /\ exc' = [exc EXCEPT ![t] = "BusyError"]
            /\ ev' = [Event("busy", t, call[t], None, "BusyError", "", View(t), wr,
                            Len(scopes[t]))
                        EXCEPT !.retried = attempt[t] # call[t].entered,
                               !.until = retry_until[t], !.held = work]
            /\ pc' = [pc EXCEPT ![t] = "run"]
            /\ call' = [call EXCEPT ![t] = NoCall]
            /\ retry_until' = [retry_until EXCEPT ![t] = 0]
            /\ attempt' = [attempt EXCEPT ![t] = 0]
    /\ UNCHANGED <<db, work, lock, txn_id, timeout, now, calls, scopes, wr, added>>

\* control leaves thread t's innermost scope, opened for call c, with exception e in
\* flight ("" for none), result ret, and tbl and w what its body leaves:
\* "if begin: assert self._txn_id == tid; self._txn_id = None;
\*  cursor.execute(ROLLBACK or COMMIT)", "cursor.close()", and "raise" if e
Leave(t, c, e, ret, tbl, w, pre) ==
    /\ IF Top(t).begin
       THEN /\ txn_id = t
            /\ txn_id' = None
            /\ db' = IF EndStatement(e) = "COMMIT" THEN tbl ELSE db
            /\ work' = <<>>
            /\ lock' = None
            /\ wr' = NoWrites
       ELSE /\ Write(t, tbl)
            /\ wr' = w
            /\ UNCHANGED <<txn_id, lock>>
    /\ added' = [k \in Keys |->
                    IF Top(t).begin /\ EndStatement(e) = "ROLLBACK" THEN {}
                    ELSE IF w[k] # wr[k] THEN {}
                    ELSE added[k]]
    /\ scopes' = [scopes EXCEPT ![t] = SubSeq(@, 1, Len(@) - 1)]
    /\ pc' = [pc EXCEPT ![t] = "run"]
    /\ call' = [call EXCEPT ![t] = NoCall]
    /\ exc' = [exc EXCEPT ![t] = e]
    /\ ev' = [Event("leave", t, c, ret, e, IF Top(t).begin THEN EndStatement(e) ELSE "",
                    pre, w, Len(scopes[t]) - 1)
                EXCEPT !.begin = Top(t).begin]
    /\ UNCHANGED <<timeout, now, calls, retry_until, attempt>>

\* the "with store.transact()" block is left, at its end or by the exception in
\* flight
ExitScope(t) ==
    /\ UNCHANGED aux
    /\ pc[t] = "run"
    /\ scopes[t] # <<>>
    /\ Top(t).kind = "transact"
    /\ Leave(t, [NoCall EXCEPT !.op = "transact"], exc[t], None, View(t), wr,
             Top(t).pre)

\* variant: the body of pop returns the value and issues no DELETE
PopBody_KeepsKey(t) ==
    /\ UNCHANGED aux
    /\ pc[t] = "body"
    /\ call[t].op = "pop"
    /\ LET c == call[t]
           value == GET(View(t), c.key)
       IN Leave(t, c, IF value = MISSING /\ c.value = MISSING THEN "KeyError" ELSE "",
                IF value = MISSING THEN c.value ELSE value, View(t), wr, View(t))

\* the body of pop: GET, then KeyError, the default, or DELETE and the value
PopBody(t) ==
    /\ UNCHANGED aux
    /\ pc[t] = "body"
    /\ call[t].op = "pop"
    /\ LET c == call[t]
           d == Len(scopes[t])
           value == GET(View(t), c.key)
       IN IF value = MISSING
          THEN Leave(t, c, IF c.value = MISSING THEN "KeyError" ELSE "", c.value,
                     View(t), wr, View(t))
          ELSE Leave(t, c, "", value, DELETE(View(t), c.key).tbl,
                     Note(wr, d, c.key, MISSING), View(t))

\* the body of update: "cursor.executemany(self._statements["SET"], comp)"
UpdateBody(t) ==
    /\ UNCHANGED aux
    /\ pc[t] = "body"
    /\ call[t].op = "update"
    /\ Leave(t, call[t], "", None, SetMany(View(t), call[t].pairs),
             NoteMany(wr, Len(scopes[t]), call[t].pairs), View(t))

\* the body of a "with store.transact()" block raises
BodyRaise(t) ==
    /\ UNCHANGED aux
    /\ pc[t] = "run"
    /\ exc[t] = ""
    /\ scopes[t] # <<>>
    /\ Top(t).kind = "transact"
    /\ exc' = [exc EXCEPT ![t] = "Error"]
    /\ ev' = NoEv
    /\ UNCHANGED <<db, work, lock, txn_id, timeout, now, calls, pc, scopes, call,
                   retry_until, attempt, wr, added>>

\* the caller catches the exception: at top level, or in the body of a scope
Catch(t) ==
    /\ UNCHANGED aux
    /\ pc[t] = "run"
    /\ exc[t] # ""
    /\ exc' = [exc EXCEPT ![t] = ""]
    /\ ev' = NoEv
    /\ UNCHANGED <<db, work, lock, txn_id, timeout, now, calls, pc, scopes, call,
                   retry_until, attempt, wr, added>>

Next ==
    \/ Tick
    \/ \E t \in Threads :
        \/ \E k \in Keys, v \in Values : setitem(t, k, v)
        \/ \E k \in Keys, v \in Values : add(t, k, v)
        \/ \E k \in Keys : delitem(t, k)
        \/ ExecStmt(t)
        \/ StmtBusy(t)
        \/ \E retry \in BOOLEAN : transact(t, retry)
        \/ \E k \in Keys, d \in Defaults : pop(t, k, d)
        \/ \E other \in PairSeqs : update(t, other)
        \/ BeginImmediate(t)
        \/ BeginBusy(t)
        \/ PopBody(t)
        \/ UpdateBody(t)
        \/ BodyRaise(t)
        \/ Catch(t)
        \/ ExitScope(t)

Spec == Init /\ [][Next]_vars

\* the begin loop of a waiting thread is scheduled, and time passes
FairSpec ==
    /\ Spec
    /\ WF_vars(Tick)
    /\ \A t \in Threads : WF_vars(BeginImmediate(t) \/ BeginBusy(t))

\* ------------------------------------------ the marker of the transaction
\* Connection(":memory:") and Connection("") open a database of the connection's
\* own; every connection to a path opens the same file
Private == filename \in {":memory:", ""}

\* what "BEGIN IMMEDIATE" on thread t's connection does: it begins, fails within t's
\* own open transaction ("cannot start a transaction within a transaction"), or
\* finds the write lock of the file held
BeginOutcome(t) ==
    CASE t \in begun -> "SQLError"
      [] t \notin begun /\ (Private \/ begun = {}) -> "ok"
      [] OTHER -> "busy"

markerRest == <<db, work, lock, timeout, now, calls, call, retry_until, attempt, wr,
                added, early, filename, marker, frames>>

\* "begin = True; self._txn_id = tid; break", "yield cursor"; entered is the number
\* of scopes the thread was in
MarkBegun(t, waited) ==
    /\ begun' = begun \cup {t}
    /\ txn_id' = t
    /\ scopes' = [scopes EXCEPT ![t] = Append(@, Frame("transact", TRUE, <<>>))]
    /\ pc' = [pc EXCEPT ![t] = "run"]
    /\ ev' = [NoEv EXCEPT !.what = "begin", !.tid = t, !.op = "transact",
                          !.sql = "BEGIN", !.begin = TRUE, !.retried = waited,
                          !.entered = Len(scopes[t]), !.depth = Len(scopes[t]) + 1]
    /\ UNCHANGED exc

\* transact of a store on any kind of database up to its first BEGIN IMMEDIATE:
\* "if tid == txn_id: begin = False", else the statement begins, raises SQLError, or
\* waits for the write lock
MarkTransact(t) ==
    /\ pc[t] = "run"
    /\ exc[t] = ""
    /\ Len(scopes[t]) < MaxDepth
    /\ IF AlreadyInside(t)
       THEN /\ scopes' = [scopes EXCEPT ![t] = Append(@, Frame("transact", FALSE, <<>>))]
            /\ ev' = [NoEv EXCEPT !.what = "enter", !.tid = t, !.op = "transact",
                                  !.entered = Len(scopes[t]),
                                  !.depth = Len(scopes[t]) + 1]
            /\ UNCHANGED <<txn_id, begun, pc, exc>>
       ELSE CASE BeginOutcome(t) = "ok" -> MarkBegun(t, FALSE)
              [] BeginOutcome(t) = "SQLError" ->
                   /\ exc' = [exc EXCEPT ![t] = "SQLError"]
                   /\ ev' = [NoEv EXCEPT !.what = "begin", !.tid = t,
                                         !.op = "transact", !.exc = "SQLError",
                                         !.entered = Len(scopes[t]),
                                         !.depth = Len(scopes[t])]
                   /\ UNCHANGED <<txn_id, begun, pc, scopes>>
              [] BeginOutcome(t) = "busy" ->
                   /\ pc' = [pc EXCEPT ![t] = "begin"]
                   /\ ev' = NoEv
                   /\ UNCHANGED <<txn_id, begun, scopes, exc>>
    /\ UNCHANGED markerRest

\* the waiting BEGIN IMMEDIATE, or one of the retry loop, gets the write lock
MarkBeginImmediate(t) ==
    /\ pc[t] = "begin"
    /\ BeginOutcome(t) = "ok"
    /\ MarkBegun(t, TRUE)
    /\ UNCHANGED markerRest

\* the busy timeout of the last BEGIN IMMEDIATE of the loop has passed: "raise"
MarkBeginBusy(t) ==
    /\ pc[t] = "begin"
    /\ BeginOutcome(t) = "busy"
    /\ pc' = [pc EXCEPT ![t] = "run"]
    /\ exc' = [exc EXCEPT ![t] = "BusyError"]
    /\ ev' = [NoEv EXCEPT !.what = "busy", !.tid = t, !.op = "transact",
                          !.exc = "BusyError", !.depth = Len(scopes[t])]
    /\ UNCHANGED <<txn_id, begun, scopes>>
    /\ UNCHANGED markerRest

\* control leaves thread t's innermost scope: "if begin: assert self._txn_id == tid;
\* self._txn_id = None; cursor.execute(ROLLBACK or COMMIT)"; a failing assert raises
\* AssertionError before the marker is reset and the transaction is ended
MarkExit(t) ==
    /\ pc[t] = "run"
    /\ scopes[t] # <<>>
    /\ scopes' = [scopes EXCEPT ![t] = SubSeq(@, 1, Len(@) - 1)]
    /\ IF Top(t).begin /\ txn_id # t
       THEN /\ exc' = [exc EXCEPT ![t] = "AssertionError"]
            /\ UNCHANGED <<txn_id, begun>>
       ELSE IF Top(t).begin
       THEN /\ txn_id' = None
            /\ begun' = begun \ {t}
            /\ UNCHANGED exc
       ELSE UNCHANGED <<txn_id, begun, exc>>
    /\ ev' = [NoEv EXCEPT !.what = "leave", !.tid = t, !.op = "transact",
                          !.begin = Top(t).begin, !.exc = exc'[t],
                          !.sql = IF Top(t).begin /\ txn_id = t
                                  THEN EndStatement(exc[t]) ELSE "",
                          !.depth = Len(scopes[t]) - 1]
    /\ UNCHANGED pc
    /\ UNCHANGED markerRest

\* a store on a file, in memory, or on a temporary database, not yet called
MarkInit ==
    /\ StoreIdle
    /\ SeqIdle
    /\ ConIdle
    /\ EarlyIdle
    /\ upd = [t \in Threads |-> NoUpdate]
    /\ filename \in {"file", ":memory:", ""}
    /\ begun = {}
    /\ marker = <<>>
    /\ frames = <<>>

MarkNext ==
    \E t \in Threads :
        \/ MarkTransact(t)
        \/ MarkBeginImmediate(t)
        \/ MarkBeginBusy(t)
        \/ MarkExit(t)
        \/ BodyRaise(t)
        \/ Catch(t)

\* threads that open and leave scopes of one store
MarkSpec == MarkInit /\ [][MarkNext]_vars

\* ------------------------------------------- two stores of one thread
\* the store objects the thread constructed on one file; each has a connection of
\* its own for the thread, named like the store, and a marker of its own
Instances2 == {1, 2}

\* threading.get_ident() of the thread
Tid == 1

\* how long the BEGIN IMMEDIATE loop of transact(retry) runs when the write lock is
\* never released: every attempt waits the busy timeout, and the loop goes round
\* until "time() < retry_until" fails
LoopTime(retry) ==
    IF retry THEN timeout * ((TIMEOUT + timeout - 1) \div timeout) ELSE timeout

twoRest == <<txn_id, timeout, calls, pc, scopes, call, retry_until, attempt, wr, added,
             early, filename, begun>>

\* "if tid == txn_id" of store i
TwoInside(i) == marker[i] = Tid

\* "with store_i.transact(retry):" in the one thread: a nested scope, BEGIN
\* IMMEDIATE at once, or the write lock is held by the connection of the thread's
\* other store, which cannot release it while the thread waits: the loop runs for
\* LoopTime and the call raises BusyError
TwoTransact(i, retry) ==
    /\ exc[Tid] = ""
    /\ Len(frames) < MaxDepth
    /\ IF TwoInside(i)
       THEN /\ frames' = Append(frames, [store |-> i, begin |-> FALSE])
            /\ ev' = [NoEv EXCEPT !.what = "enter", !.tid = Tid, !.op = "transact",
                                  !.store = i, !.retry = retry, !.entered = now]
            /\ UNCHANGED <<work, lock, marker, now, exc>>
       ELSE IF lock = None
       THEN /\ lock' = i
            /\ work' = db
            /\ marker' = [marker EXCEPT ![i] = Tid]
            /\ frames' = Append(frames, [store |-> i, begin |-> TRUE])
            /\ ev' = [NoEv EXCEPT !.what = "begin", !.tid = Tid, !.op = "transact",
                                  !.store = i, !.retry = retry, !.entered = now,
                                  !.sql = "BEGIN", !.begin = TRUE]
            /\ UNCHANGED <<now, exc>>
       ELSE /\ now + LoopTime(retry) <= MaxTime
            /\ now' = now + LoopTime(retry)
            /\ exc' = [exc EXCEPT ![Tid] = "BusyError"]
            /\ ev' = [NoEv EXCEPT !.what = "busy", !.tid = Tid, !.op = "transact",
                                  !.store = i, !.retry = retry, !.entered = now,
                                  !.exc = "BusyError"]
            /\ UNCHANGED <<work, lock, marker, frames>>
    /\ UNCHANGED <<db, twoRest>>

\* "store_i[k] = v" in the one thread: the statement runs in the transaction of
\* store i's connection, autocommits, or waits the busy timeout for the write lock
\* of the other store's connection and raises BusyError
TwoSetitem(i, k, v) ==
    /\ exc[Tid] = ""
    /\ IF lock = i
       THEN /\ work' = SET(work, k, v)
            /\ ev' = [NoEv EXCEPT !.what = "stmt", !.tid = Tid, !.op = "set",
                                  !.store = i, !.key = k, !.value = v, !.entered = now]
            /\ UNCHANGED <<db, now, exc>>
       ELSE IF lock = None
       THEN /\ db' = SET(db, k, v)
            /\ ev' = [NoEv EXCEPT !.what = "stmt", !.tid = Tid, !.op = "set",
                                  !.store = i, !.key = k, !.value = v, !.entered = now]
            /\ UNCHANGED <<work, now, exc>>
       ELSE /\ now + timeout <= MaxTime
            /\ now' = now + timeout
            /\ exc' = [exc EXCEPT ![Tid] = "BusyError"]
            /\ ev' = [NoEv EXCEPT !.what = "busy", !.tid = Tid, !.op = "set",
                                  !.store = i, !.key = k, !.value = v, !.entered = now,
                                  !.exc = "BusyError"]
            /\ UNCHANGED <<db, work>>
    /\ UNCHANGED <<lock, marker, frames, twoRest>>

\* the thread's innermost with-block is left: "if begin: ... self._txn_id = None;
\* cursor.execute(ROLLBACK or COMMIT)"
TwoExit ==
    /\ frames # <<>>
    /\ LET f == frames[Len(frames)]
       IN /\ frames' = SubSeq(frames, 1, Len(frames) - 1)
          /\ IF f.begin
             THEN /\ marker' = [marker EXCEPT ![f.store] = None]
                  /\ db' = IF EndStatement(exc[Tid]) = "COMMIT" THEN work ELSE db
                  /\ work' = <<>>
                  /\ lock' = None
             ELSE UNCHANGED <<marker, db, work, lock>>
          /\ ev' = [NoEv EXCEPT !.what = "leave", !.tid = Tid, !.op = "transact",
                                !.store = f.store, !.begin = f.begin, !.entered = now,
                                !.exc = exc[Tid],
                                !.sql = IF f.begin THEN EndStatement(exc[Tid]) ELSE ""]
    /\ UNCHANGED <<now, exc, twoRest>>

\* the thread catches the exception in flight
TwoCatch ==
    /\ exc[Tid] # ""
    /\ exc' = [exc EXCEPT ![Tid] = ""]
    /\ ev' = NoEv
    /\ UNCHANGED <<db, work, lock, marker, frames, now, twoRest>>

\* two stores constructed on one file by one thread
TwoInit ==
    /\ SeqIdle
    /\ ConIdle
    /\ EarlyIdle
    /\ upd = [t \in Threads |-> NoUpdate]
    /\ db = <<>>
    /\ ThreadsIdle
    /\ filename = "file"
    /\ begun = {}
    /\ marker = [i \in Instances2 |-> None]
    /\ frames = <<>>

TwoNext ==
    \/ \E i \in Instances2, retry \in BOOLEAN : TwoTransact(i, retry)
    \/ \E i \in Instances2, k \in Keys, v \in Values : TwoSetitem(i, k, v)
    \/ TwoExit
    \/ TwoCatch

\* one thread that uses two stores on one file
TwoSpec == TwoInit /\ [][TwoNext]_vars

\* ------------------------------------------------- a fork inside a scope
\* One thread constructs the store and forks; each child is a copy of the process
\* with the one thread, which runs code of its own and does not return through the
\* with-blocks of its parent; a process that has forked only leaves the scopes it
\* is in. The connection a process opens is named like the process, exc[p] is the
\* exception in flight in process p, and the store of an event is the process.
forkRest == <<txn_id, timeout, now, calls, pc, scopes, call, retry_until, attempt, wr,
              added, seqVars, upd, taken, default_expiration, columns, stores, declared,
              filename, begun, conns, handles, cur, cev, klass, file, pragmas>>

\* process p has not forked and no exception is in flight in it
ForkCanCall(p) == p \in alive /\ p + 1 \notin alive /\ exc[p] = ""

\* the _con property read in process p: "if local_pid != pid: self.close();
\* self._local.pid = pid", "if con is None: con = self._local.con = Connection(...)"
ForkCon(p) ==
    IF local[p][Tid].pid # p THEN [pid |-> p, con |-> p] ELSE local[p][Tid]

\* "with store.transact():" in process p: "cursor = self._con.cursor()", then "if
\* tid == txn_id: begin = False", else BEGIN IMMEDIATE on p's connection, which
\* begins or, the write lock being held by another process, ends with BusyError
ForkTransact(p) ==
    LET con == ForkCon(p).con
        d == Len(frames[p])
    IN /\ ForkCanCall(p)
       /\ d < MaxDepth
       /\ local' = [local EXCEPT ![p][Tid] = ForkCon(p)]
       /\ IF marker[p] = Tid
          THEN /\ frames' = [frames EXCEPT ![p] =
                               Append(@, [begin |-> FALSE, con |-> con, pre |-> db,
                                          free |-> lock = None])]
               /\ ev' = [NoEv EXCEPT !.what = "enter", !.tid = Tid, !.op = "transact",
                                     !.store = p, !.depth = d + 1]
               /\ UNCHANGED <<work, lock, marker, exc>>
          ELSE IF lock = None
          THEN /\ lock' = con
               /\ work' = db
               /\ marker' = [marker EXCEPT ![p] = Tid]
               /\ frames' = [frames EXCEPT ![p] =
                               Append(@, [begin |-> TRUE, con |-> con, pre |-> db,
                                          free |-> TRUE])]
               /\ ev' = [NoEv EXCEPT !.what = "begin", !.tid = Tid, !.op = "transact",
                                     !.store = p, !.sql = "BEGIN", !.begin = TRUE,
                                     !.depth = d + 1]
               /\ UNCHANGED exc
          ELSE /\ exc' = [exc EXCEPT ![p] = "BusyError"]
               /\ ev' = [NoEv EXCEPT !.what = "busy", !.tid = Tid, !.op = "transact",
                                     !.store = p, !.exc = "BusyError", !.depth = d]
               /\ UNCHANGED <<work, lock, marker, frames>>
       /\ UNCHANGED <<db, alive, forkRest>>

\* "store[k] = v" in process p: the statement runs in the transaction of p's
\* connection, autocommits, or ends with BusyError
ForkSetitem(p, k, v) ==
    LET con == ForkCon(p).con
        e == [NoEv EXCEPT !.what = "stmt", !.tid = Tid, !.op = "set", !.store = p,
                          !.key = k, !.value = v, !.depth = Len(frames[p])]
    IN /\ ForkCanCall(p)
       /\ local' = [local EXCEPT ![p][Tid] = ForkCon(p)]
       /\ IF lock = con
          THEN /\ work' = SET(work, k, v)
               /\ ev' = e
               /\ UNCHANGED <<db, exc>>
          ELSE IF lock = None
          THEN /\ db' = SET(db, k, v)
               /\ ev' = e
               /\ UNCHANGED <<work, exc>>
          ELSE /\ exc' = [exc EXCEPT ![p] = "BusyError"]
               /\ ev' = [e EXCEPT !.what = "busy", !.exc = "BusyError"]
               /\ UNCHANGED <<db, work>>
       /\ UNCHANGED <<lock, marker, frames, alive, forkRest>>

\* the body of a scope of process p raises
ForkRaise(p) ==
    /\ ForkCanCall(p)
    /\ frames[p] # <<>>
    /\ exc' = [exc EXCEPT ![p] = "Error"]
    /\ ev' = NoEv
    /\ UNCHANGED <<db, work, lock, marker, frames, alive, local, forkRest>>

\* process p catches the exception in flight
ForkCatch(p) ==
    /\ p \in alive
    /\ exc[p] # ""
    /\ exc' = [exc EXCEPT ![p] = ""]
    /\ ev' = NoEv
    /\ UNCHANGED <<db, work, lock, marker, frames, alive, local, forkRest>>

\* control leaves the innermost scope of process p: "if begin: assert self._txn_id
\* == tid; self._txn_id = None; cursor.execute(ROLLBACK or COMMIT)"; pre is the
\* committed table when the scope was entered, retried whether the write lock was
\* free then
ForkExit(p) ==
    /\ p \in alive
    /\ frames[p] # <<>>
    /\ LET f == frames[p][Len(frames[p])]
       IN /\ frames' = [frames EXCEPT ![p] = SubSeq(@, 1, Len(@) - 1)]
          /\ IF f.begin
             THEN /\ marker' = [marker EXCEPT ![p] = None]
                  /\ db' = IF EndStatement(exc[p]) = "COMMIT" THEN work ELSE db
                  /\ work' = <<>>
                  /\ lock' = None
             ELSE UNCHANGED <<marker, db, work, lock>>
          /\ ev' = [NoEv EXCEPT !.what = "leave", !.tid = Tid, !.op = "transact",
                                !.store = p, !.begin = f.begin, !.exc = exc[p],
                                !.sql = IF f.begin THEN EndStatement(exc[p]) ELSE "",
                                !.pre = f.pre, !.retried = f.free,
                                !.depth = Len(frames[p]) - 1]
    /\ UNCHANGED <<exc, alive, local, forkRest>>

\* os.fork() in the youngest process p: the child has a copy of the store object,
\* with its marker and the thread-local pid and connection of the forking thread
ForkChild(p) ==
    /\ ForkCanCall(p)
    /\ p + 1 \in Procs
    /\ alive' = alive \cup {p + 1}
    /\ marker' = [marker EXCEPT ![p + 1] = marker[p]]
    /\ local' = [local EXCEPT ![p + 1] = local[p]]
    /\ ev' = [NoEv EXCEPT !.what = "fork", !.tid = Tid, !.store = p + 1,
                          !.begin = marker[p] = Tid, !.depth = Len(frames[p])]
    /\ UNCHANGED <<db, work, lock, exc, frames, forkRest>>

\* the store constructed by the one thread of process 1
ForkInit ==
    /\ SeqIdle
    /\ ConIdle
    /\ EarlyIdle
    /\ upd = [t \in Threads |-> NoUpdate]
    /\ db = <<>>
    /\ work = <<>>
    /\ lock = None
    /\ txn_id = None
    /\ timeout = TIMEOUT
    /\ now = 0
    /\ calls = 0
    /\ pc = [t \in Threads |-> "run"]
    /\ scopes = [t \in Threads |-> <<>>]
    /\ exc = [p \in Procs |-> ""]
    /\ call = [t \in Threads |-> NoCall]
    /\ retry_until = [t \in Threads |-> 0]
    /\ attempt = [t \in Threads |-> 0]
    /\ wr = NoWrites
    /\ added = [k \in Keys |-> {}]
    /\ ev = NoEv
    /\ filename = "file"
    /\ begun = {}
    /\ marker = [p \in Procs |-> None]
    /\ frames = [p \in Procs |-> <<>>]

ForkNext ==
    \E p \in Procs :
        \/ ForkTransact(p)
        \/ \E k \in Keys, v \in Values : ForkSetitem(p, k, v)
        \/ ForkRaise(p)
        \/ ForkCatch(p)
        \/ ForkExit(p)
        \/ ForkChild(p)

\* a process that uses the store and forks, and its children
ForkSpec == ForkInit /\ [][ForkNext]_vars

\* ----------------------------------------------- threads on their own keys
\* test_differnt_threads: "number" is the key of the thread it is passed to
OwnKey(t) == t

\* variant: the read statement reads the committed table, also in the reader's own
\* transaction
getitemBy_Committed(t, k) ==
    LET c == [NoCall EXCEPT !.op = "getitem", !.key = k]
        row == GET(db, k)
    IN /\ CanCall(t)
       /\ calls' = calls + 1
       /\ exc' = [exc EXCEPT ![t] = IF row = MISSING THEN "KeyError" ELSE ""]
       /\ ev' = Event("stmt", t, c, IF row = MISSING THEN None ELSE row,
                      IF row = MISSING THEN "KeyError" ELSE "", "", View(t), wr,
                      Len(scopes[t]))
       /\ UNCHANGED <<db, work, lock, txn_id, timeout, now, pc, scopes, call,
                      retry_until, attempt, wr, added, aux>>

\* DiskRead.__getitem__ called by thread t: the GET statement reads what t's
\* connection sees and waits for no lock; "if row is MISSING: raise KeyError(key)"
getitemBy(t, k) ==
    LET c == [NoCall EXCEPT !.op = "getitem", !.key = k]
        row == GET(View(t), k)
    IN /\ CanCall(t)
       /\ calls' = calls + 1
       /\ exc' = [exc EXCEPT ![t] = IF row = MISSING THEN "KeyError" ELSE ""]
       /\ ev' = Event("stmt", t, c, IF row = MISSING THEN None ELSE row,
                      IF row = MISSING THEN "KeyError" ELSE "", "", View(t), wr,
                      Len(scopes[t]))
       /\ UNCHANGED <<db, work, lock, txn_id, timeout, now, pc, scopes, call,
                      retry_until, attempt, wr, added, aux>>

OwnNext ==
    \/ Tick
    \/ \E t \in Threads :
        \/ getitemBy(t, OwnKey(t))
        \/ \E v \in Values : setitem(t, OwnKey(t), v)
        \/ delitem(t, OwnKey(t))
        \/ ExecStmt(t)
        \/ StmtBusy(t)
        \/ \E retry \in BOOLEAN : transact(t, retry)
        \/ BeginImmediate(t)
        \/ BeginBusy(t)
        \/ Catch(t)
        \/ ExitScope(t)

\* each thread reads, sets and deletes the key that is its own, in scopes or not
OwnSpec == Init /\ [][OwnNext]_vars

\* ------------------------------------------------------ clear among threads
ClearNext ==
    \/ Tick
    \/ \E t \in Threads :
        \/ \E k \in Keys, v \in Values : setitem(t, k, v)
        \/ clear(t)
        \/ ExecStmt(t)
        \/ StmtBusy(t)
        \/ \E retry \in BOOLEAN : transact(t, retry)
        \/ BeginImmediate(t)
        \/ BeginBusy(t)
        \/ BodyRaise(t)
        \/ Catch(t)
        \/ ExitScope(t)

\* threads that write, clear the store and open scopes
ClearSpec == Init /\ [][ClearNext]_vars

\* ------------------------------------------------- setdefault among threads
\* DiskStore.setdefault up to the end of its lookup: "try: return self[key]", and on
\* KeyError "return default" when the default is None
SetdefaultGet(t, k, default) ==
    LET c == [NoCall EXCEPT !.op = "setdefault", !.key = k, !.value = default]
        value == GET(View(t), k)
    IN /\ CanCall(t)
       /\ calls' = calls + 1
       /\ IF value = MISSING /\ default # None
          THEN /\ pc' = [pc EXCEPT ![t] = "setdefault"]
               /\ call' = [call EXCEPT ![t] = c]
               /\ ev' = NoEv
          ELSE /\ ev' = Event("stmt", t, c, IF value = MISSING THEN default ELSE value,
                              "", "", View(t), wr, Len(scopes[t]))
               /\ UNCHANGED <<pc, call>>
       /\ UNCHANGED <<db, work, lock, txn_id, timeout, now, scopes, exc, retry_until,
                      attempt, wr, added, aux>>

\* the rest of setdefault: "self.add(key, default)", "return default"; held is what
\* the ADD statement returned
SetdefaultAdd(t) ==
    LET c == call[t]
        r == ADD(View(t), c.key, c.value)
    IN /\ pc[t] = "setdefault"
       /\ lock \in {None, t}
       /\ Write(t, r.tbl)
       /\ added' = [added EXCEPT ![c.key] =
                       IF r.rows # <<>> THEN @ \cup {<<t, c.value>>} ELSE @]
       /\ ev' = [Event("stmt", t, c, c.value, "", "", View(t), wr, Len(scopes[t]))
                    EXCEPT !.held = r.rows]
       /\ pc' = [pc EXCEPT ![t] = "run"]
       /\ call' = [call EXCEPT ![t] = NoCall]
       /\ UNCHANGED <<lock, txn_id, timeout, now, calls, scopes, exc, retry_until,
                      attempt, wr, aux>>

SetdefaultNext ==
    \E t \in Threads :
        \/ \E k \in Keys, v \in Values : setitem(t, k, v)
        \/ \E k \in Keys, v \in Values : add(t, k, v)
        \/ \E k \in Keys : delitem(t, k)
        \/ \E k \in Keys, d \in Values \cup {None} : SetdefaultGet(t, k, d)
        \/ SetdefaultAdd(t)
        \/ Catch(t)

\* threads that call setdefault and write outside any scope
SetdefaultSpec == Init /\ [][SetdefaultNext]_vars

\* --------------------------------------------------- single-threaded runs
\* "primary_key_type": BLOB, or TEXT / INTEGER / REAL for key_type str / int / float
KeyTypes == {"BLOB", "TEXT", "INTEGER", "REAL"}

\* the engine's largest rowid (2^63 - 1), scaled to the range of the integer keys
MaxRowid == NumKeys + 1

\* the keys a store of key type kt is given
KeysOf(kt) == IF kt = "INTEGER" THEN 1..MaxRowid ELSE Keys

\* calls of one single-threaded run
MaxOps == 4

\* a row of the table, with the rowid the engine orders it by
RowAt(r, k, v) == [rowid |-> r, key |-> k, value |-> v]

LastRowid(tbl) == IF tbl = <<>> THEN 0 ELSE tbl[Len(tbl)].rowid

\* variant: the engine always hands out rowid 1
NewRowids_One(kt, tbl) == {1}

\* the rowids the engine may give a row inserted without one: 1 into an empty table,
\* else one more than the largest, and once the largest rowid is in use (which takes
\* an INTEGER key, the rowid itself) any unused one
NewRowids(kt, tbl) ==
    IF tbl = <<>> THEN {1}
    ELSE IF kt # "INTEGER" \/ LastRowid(tbl) < MaxRowid THEN {LastRowid(tbl) + 1}
    ELSE {r \in 1..MaxRowid : \A i \in 1..Len(tbl) : tbl[i].rowid # r}

\* the table with one more row, in rowid order
InsertRow(tbl, row) ==
    SelectSeq(tbl, LAMBDA r : r.rowid < row.rowid) \o <<row>>
        \o SelectSeq(tbl, LAMBDA r : r.rowid > row.rowid)

\* "INSERT INTO t(_key, value) VALUES (?, ?)" of an absent key: the outcomes, each
\* the table afterwards and the key of the new row. "_key INTEGER PRIMARY KEY" is
\* the rowid, and NULL for it asks the engine for a rowid; any other _key column
\* leaves the rowid to the engine
Insert(kt, tbl, k, v) ==
    IF kt = "INTEGER" /\ k # None
    THEN {[tbl |-> InsertRow(tbl, RowAt(k, k, v)), rows |-> <<k>>]}
    ELSE {[tbl |-> InsertRow(tbl, RowAt(r, IF k = None THEN r ELSE k, v)),
           rows |-> <<IF k = None THEN r ELSE k>>] : r \in NewRowids(kt, tbl)}

\* variant: on conflict the new value is added to the stored one
TypedSET_Accumulate(kt, tbl, k, v) ==
    IF HasKey(tbl, k)
    THEN {[tbl EXCEPT ![IndexOf(tbl, k)].value = @ + v]}
    ELSE {o.tbl : o \in Insert(kt, tbl, k, v)}

\* variant: on conflict the row is replaced by a new row
TypedSET_Replace(kt, tbl, k, v) ==
    {o.tbl : o \in Insert(kt, SelectSeq(tbl, LAMBDA r : r.key # k), k, v)}

\* the SET statement on a table of key type kt: the tables it may leave
TypedSET(kt, tbl, k, v) ==
    IF HasKey(tbl, k)
    THEN {[tbl EXCEPT ![IndexOf(tbl, k)].value = v]}
    ELSE {o.tbl : o \in Insert(kt, tbl, k, v)}

\* the ADD statement on a table of key type kt: the outcomes
TypedADD(kt, tbl, k, v) ==
    IF k # None /\ HasKey(tbl, k)
    THEN {[tbl |-> tbl, rows |-> <<>>]}
    ELSE Insert(kt, tbl, k, v)

\* variant: the first row by rowid
POPITEM_First(tbl) == IF tbl = <<>> THEN <<>> ELSE <<tbl[1]>>

\* "SELECT _key, value FROM t ORDER BY rowid DESC LIMIT 1"
POPITEM(tbl) == IF tbl = <<>> THEN <<>> ELSE <<tbl[Len(tbl)]>>

\* variant: descending
ITER_Desc(tbl) == [i \in 1..Len(tbl) |-> tbl[Len(tbl) + 1 - i].key]

\* "SELECT _key FROM t ORDER BY rowid ASC"
ITER(tbl) == [i \in 1..Len(tbl) |-> tbl[i].key]

\* "SELECT _key FROM t ORDER BY rowid DESC"
REVERSED(tbl) == [i \in 1..Len(tbl) |-> tbl[Len(tbl) + 1 - i].key]

\* the result of a call: the table (or dictionary) it leaves, what it returns (a
\* tuple: one element, the (key, value) of popitem, or the keys of an iteration)
\* and the exception it raises
Result(tbl, ret, e) == [tbl |-> tbl, ret |-> ret, exc |-> e]

\* DiskRead.__getitem__
getitemOn(tbl, k) ==
    IF GET(tbl, k) = MISSING
    THEN Result(tbl, <<>>, "KeyError")
    ELSE Result(tbl, <<GET(tbl, k)>>, "")

\* DiskStore.__setitem__
setitemOn(kt, tbl, k, v) == {Result(t2, <<None>>, "") : t2 \in TypedSET(kt, tbl, k, v)}

\* DiskStore.add: "if not rows: return None", "return rows[0][0]"
addOn(kt, tbl, k, v) ==
    {Result(o.tbl, IF o.rows = <<>> THEN <<None>> ELSE <<o.rows[1]>>, "") :
        o \in TypedADD(kt, tbl, k, v)}

\* DiskStore.pop, in a transaction of its own
popOn(tbl, k, default) ==
    IF GET(tbl, k) = MISSING
    THEN IF default = MISSING
         THEN Result(tbl, <<>>, "KeyError")
         ELSE Result(tbl, <<default>>, "")
    ELSE Result(DELETE(tbl, k).tbl, <<GET(tbl, k)>>, "")

\* DiskStore.popitem, in a transaction of its own
popitemOn(tbl) ==
    IF POPITEM(tbl) = <<>>
    THEN Result(tbl, <<>>, "KeyError")
    ELSE LET row == POPITEM(tbl)[1]
         IN Result(DELETE(tbl, row.key).tbl, <<row.key, row.value>>, "")

\* variant: the default is stored whatever the store holds
setdefaultOn_Overwrite(kt, tbl, k, default) ==
    {Result(t2, <<default>>, "") : t2 \in TypedSET(kt, tbl, k, default)}

\* DiskStore.setdefault: "try: return self[key]", "except KeyError: if default is
\* not None: ... self.add(key, default)", "return default"
setdefaultOn(kt, tbl, k, default) ==
    IF GET(tbl, k) # MISSING
    THEN {Result(tbl, <<GET(tbl, k)>>, "")}
    ELSE IF default # None
    THEN {Result(o.tbl, <<default>>, "") : o \in TypedADD(kt, tbl, k, default)}
    ELSE {Result(tbl, <<default>>, "")}

\* DiskRead.__len__
lenOn(tbl) == Result(tbl, <<COUNT(tbl)>>, "")

\* DiskRead.__iter__
iterOn(tbl) == Result(tbl, ITER(tbl), "")

\* DiskRead.__reversed__
reversedOn(tbl) == Result(tbl, REVERSED(tbl), "")

\* variant: the VACUUM alone
CLEAR_VacuumOnly(tbl) == tbl

\* "DELETE FROM t;VACUUM;"
CLEAR(tbl) == <<>>

\* DiskStore.clear
clearOn(tbl) == Result(CLEAR(tbl), <<>>, "")

\* the insertion-ordered dictionary: its keys, oldest first
DictKeys(d) == [i \in 1..Len(d) |-> d[i].key]

\* the dictionary's popitem: the entry inserted last
DictPopitem(d) ==
    IF d = <<>>
    THEN Result(d, <<>>, "KeyError")
    ELSE Result(SubSeq(d, 1, Len(d) - 1), <<d[Len(d)].key, d[Len(d)].value>>, "")

Reverse(q) == [i \in 1..Len(q) |-> q[Len(q) + 1 - i]]

\* the calls that write nothing
ReadOps == {"getitem", "len", "iter", "reversed"}

\* one call of the run: the store answers o, the dictionary r
SeqStep(c, o, r) ==
    /\ nops < MaxOps
    /\ nops' = nops + 1
    /\ tab' = o.tbl
    /\ od' = r.tbl
    /\ res' = [op |-> c.op, key |-> c.key, value |-> c.value,
               prev |-> [op |-> res.op, key |-> res.key, value |-> res.value],
               prevlen |-> Len(res.pre),
               ret |-> o.ret, exc |-> o.exc, ref |-> r.ret, refexc |-> r.exc,
               pre |-> tab, preod |-> od,
               fresh |-> /\ res.fresh
                         /\ \/ c.op \in ReadOps
                            \/ c.op \in {"set", "add"} /\ Len(o.tbl) = Len(tab) + 1]
    /\ UNCHANGED <<key_type, storeVars, upd, conVars, more>>

SeqCall(op, k, v) == [op |-> op, key |-> k, value |-> v]

SeqGetitem(k) == SeqStep(SeqCall("getitem", k, None), getitemOn(tab, k), getitemOn(od, k))

SeqSetitem(k, v) ==
    \E o \in setitemOn(key_type, tab, k, v) :
        SeqStep(SeqCall("set", k, v), o, Result(SET(od, k, v), <<None>>, ""))

\* the dictionary is given the key the store returned
SeqAdd(k, v) ==
    \E o \in addOn(key_type, tab, k, v) :
        SeqStep(SeqCall("add", k, v), o,
                Result(IF o.ret = <<None>> THEN od ELSE SET(od, o.ret[1], v), o.ret, ""))

SeqPop(k, default) ==
    SeqStep(SeqCall("pop", k, default), popOn(tab, k, default), popOn(od, k, default))

\* beside a store whose rowids are its keys the dictionary gives up the entry the
\* store removed, so that it goes on holding the store's entries
SeqPopitem ==
    LET o == popitemOn(tab)
        r == DictPopitem(od)
    IN SeqStep(SeqCall("popitem", None, None), o,
               IF key_type = "INTEGER" /\ o.exc = ""
               THEN [r EXCEPT !.tbl = DELETE(od, o.ret[1]).tbl]
               ELSE r)

\* the dictionary is given the entry the store inserted
SeqSetdefault(k, default) ==
    \E o \in setdefaultOn(key_type, tab, k, default) :
        SeqStep(SeqCall("setdefault", k, default), o,
                Result(IF Len(o.tbl) = Len(tab) THEN od ELSE SET(od, k, default),
                       o.ret, ""))

SeqLen == SeqStep(SeqCall("len", None, None), lenOn(tab), Result(od, <<Len(od)>>, ""))

SeqIter == SeqStep(SeqCall("iter", None, None), iterOn(tab), Result(od, DictKeys(od), ""))

SeqReversed ==
    SeqStep(SeqCall("reversed", None, None), reversedOn(tab),
            Result(od, Reverse(DictKeys(od)), ""))

\* DiskStore.update of one pair: "cursor.executemany(self._statements["SET"], comp)"
\* in a transaction of its own
SeqUpdate(k, v) ==
    \E t2 \in TypedSET(key_type, tab, k, v) :
        SeqStep(SeqCall("update", k, v), Result(t2, <<None>>, ""),
                Result(SET(od, k, v), <<None>>, ""))

SeqClear == SeqStep(SeqCall("clear", None, None), clearOn(tab), Result(<<>>, <<>>, ""))

SeqInit ==
    /\ StoreIdle
    /\ ConIdle
    /\ MoreIdle
    /\ upd = [t \in Threads |-> NoUpdate]
    /\ key_type \in KeyTypes
    /\ tab = <<>>
    /\ od = <<>>
    /\ res = NoRes
    /\ nops = 0

SeqNext ==
    \/ \E k \in KeysOf(key_type) : SeqGetitem(k)
    \/ \E k \in KeysOf(key_type), v \in Values : SeqSetitem(k, v)
    \/ \E k \in KeysOf(key_type) \cup (IF key_type = "INTEGER" THEN {None} ELSE {}),
          v \in Values : SeqAdd(k, v)
    \/ \E k \in KeysOf(key_type), d \in Defaults : SeqPop(k, d)
    \/ SeqPopitem
    \/ \E k \in KeysOf(key_type), d \in Values \cup {None} : SeqSetdefault(k, d)
    \/ SeqLen
    \/ SeqIter
    \/ SeqReversed
    \/ SeqClear
    \/ \E k \in KeysOf(key_type), v \in Values : SeqUpdate(k, v)

\* a single thread calling one store of some key type, and the dictionary beside it
SeqSpec == SeqInit /\ [][SeqNext]_vars

\* ------------------------------------------------- values as they are given
\* a value as a caller passes it: an instance of the store's value class or a plain
\* tuple, with its one field (None: a field the table's NOT NULL column refuses)
Given(cls, x) == [cls |-> cls, field |-> x]

\* the instances of the value class with a field the table takes
Instances == {Given("Value", v) : v \in Values}

\* what the single-statement writes are given
GivenValues == Instances \cup {Given("tuple", 1)}

\* what update is given
GivenPairs == {Row(k, g) : k \in Keys, g \in GivenValues \cup {Given("Value", None)}}

\* pairs of one positional source of update
MaxBatch == 2

GivenSeqs(n) == UNION {[1..m -> GivenPairs] : m \in 0..n}

\* DiskStore._validate_value: "if isinstance(value, self._value_class): return value",
\* else ValueError
validate_value(g) == g.cls = "Value"

\* the SET statement takes the bindings "(key, *value)"
Binds(g) == g.field # None

\* thread t's statements need not wait: no other connection holds the write lock
Free(t) == lock \in {None, t}

\* __setitem__, add or setdefault called with the value as given: _validate_value,
\* then the statement (setdefault looks the key up first and, finding it, returns)
GivenWrite(t, op, k, g) ==
    /\ CanCall(t)
    /\ Free(t)
    /\ calls' = calls + 1
    /\ LET pre == View(t)
           d == Len(scopes[t])
           found == op = "setdefault" /\ contains(pre, k)
           ok == found \/ validate_value(g)
           r == CASE ~ok \/ found -> [tbl |-> pre, rows |-> <<>>]
                  [] op = "set" -> [tbl |-> SET(pre, k, g.field), rows |-> <<>>]
                  [] OTHER -> ADD(pre, k, g.field)
           ret == CASE ~ok -> None
                    [] found -> getitem(pre, k)
                    [] op = "setdefault" -> g.field
                    [] op = "add" /\ r.rows # <<>> -> r.rows[1]
                    [] OTHER -> None
           e == IF ok THEN "" ELSE "ValueError"
           w == IF lock = t /\ r.tbl # pre THEN Note(wr, d, k, g.field) ELSE wr
       IN /\ Write(t, r.tbl)
          /\ exc' = [exc EXCEPT ![t] = e]
          /\ wr' = w
          /\ ev' = Event("stmt", t, [NoCall EXCEPT !.op = op, !.key = k, !.value = g],
                         ret, e, "", pre, w, d)
    /\ UNCHANGED <<lock, txn_id, timeout, now, pc, scopes, call, retry_until, attempt,
                   added, aux>>

\* "with store.transact(retry):" while the write lock is free or the thread's own
GivenTransact(t, retry) == Free(t) /\ transact(t, retry)

\* variant: the keyword pairs first
Comps_KeywordFirst(other, kwargs) == kwargs \o other

\* update's "comps": the positional pairs, then the keyword pairs
Comps(other, kwargs) == other \o kwargs

\* DiskStore.update(other, **kwargs), the one update of the run:
\* "with self.transact(retry=True) as cursor:"
updateGiven(t, other, kwargs) ==
    /\ Free(t)
    /\ \A t2 \in Threads : upd[t2] = NoUpdate
    /\ Enter(t, [NoCall EXCEPT !.op = "update", !.pairs = Comps(other, kwargs),
                                !.retry = TRUE])
    /\ upd' = [upd EXCEPT ![t] = [other |-> other, kwargs |-> kwargs,
                                  todo |-> Comps(other, kwargs), pre |-> View(t)]]
    /\ UNCHANGED <<seqVars, conVars, more>>

\* "cursor.executemany(self._statements["SET"], comp)" reaches its next pair: the
\* SET runs, or its bindings are refused and the exception leaves update's scope
UpdateSet(t) ==
    /\ pc[t] = "body"
    /\ call[t].op = "update"
    /\ upd[t].todo # <<>>
    /\ LET p == Head(upd[t].todo)
       IN IF Binds(p.value)
          THEN /\ Write(t, SET(View(t), p.key, p.value.field))
               /\ wr' = Note(wr, Len(scopes[t]), p.key, p.value.field)
               /\ upd' = [upd EXCEPT ![t].todo = Tail(@)]
               /\ ev' = NoEv
               /\ UNCHANGED <<lock, txn_id, timeout, now, calls, pc, scopes, exc, call,
                              retry_until, attempt, added, seqVars, conVars, more>>
          ELSE /\ Leave(t, call[t], "ConstraintError", None, View(t), wr, upd[t].pre)
               /\ UNCHANGED <<upd, seqVars, conVars, more>>

\* every pair is set: update's scope is left and update returns
UpdateReturn(t) ==
    /\ pc[t] = "body"
    /\ call[t].op = "update"
    /\ upd[t].todo = <<>>
    /\ Leave(t, call[t], "", None, View(t), wr, upd[t].pre)
    /\ UNCHANGED <<upd, seqVars, conVars, more>>

\* what the store's file holds when the threads start: nothing, or a row of an
\* earlier run
Stored == {<<>>, <<Row(1, 2)>>}

UpdInit ==
    /\ db \in Stored
    /\ ThreadsIdle
    /\ SeqIdle
    /\ ConIdle
    /\ MoreIdle
    /\ upd = [t \in Threads |-> NoUpdate]

UpdNext ==
    \E t \in Threads :
        \/ \E retry \in BOOLEAN : GivenTransact(t, retry)
        \/ \E other \in GivenSeqs(MaxBatch), kwargs \in GivenSeqs(MaxBatch - 1) :
              updateGiven(t, other, kwargs)
        \/ UpdateSet(t)
        \/ UpdateReturn(t)
        \/ Catch(t)
        \/ ExitScope(t)

\* threads that open scopes on one store and update it pair by pair, and never have
\* to wait for the write lock
UpdSpec == UpdInit /\ [][UpdNext]_vars

GivenNext ==
    \E t \in Threads :
        \/ \E op \in {"set", "add", "setdefault"}, k \in Keys, g \in GivenValues :
              GivenWrite(t, op, k, g)
        \/ \E other \in GivenSeqs(1) : updateGiven(t, other, <<>>)
        \/ UpdateSet(t)
        \/ UpdateReturn(t)
        \/ Catch(t)

\* threads that write one store outside any scope, with values as they are given
GivenSpec == UpdInit /\ [][GivenNext]_vars

\* ------------------------------------------------- concurrent pop and popitem
\* variant: the body of popitem runs outside any transaction
popitem_NoTransaction(t) ==
    /\ CanCall(t)
    /\ scopes[t] = <<>>
    /\ calls' = calls + 1
    /\ scopes' = [scopes EXCEPT ![t] = <<Frame("popitem", FALSE, <<>>)>>]
    /\ pc' = [pc EXCEPT ![t] = "body"]
    /\ call' = [call EXCEPT ![t] = [NoCall EXCEPT !.op = "popitem"]]
    /\ ev' = NoEv
    /\ UNCHANGED <<db, work, lock, txn_id, timeout, now, exc, retry_until, attempt, wr,
                   added, aux>>

\* DiskStore.popitem: "with self.transact(retry=True) as cx:"
popitem(t) ==
    /\ Enter(t, [NoCall EXCEPT !.op = "popitem", !.retry = TRUE])
    /\ UNCHANGED aux

\* the first statement of the body of pop or popitem: GET of the key, or POPITEM;
\* without a row pop raises KeyError or returns the default and popitem raises
\* KeyError; with one the body goes on (the call keeps the row it read in "pairs")
TakeGet(t) ==
    /\ pc[t] = "body"
    /\ call[t].op \in {"pop", "popitem"}
    /\ LET c == call[t]
           row == IF c.op = "popitem" THEN POPITEM(View(t))
                  ELSE IF GET(View(t), c.key) = MISSING THEN <<>>
                  ELSE <<Row(c.key, GET(View(t), c.key))>>
       IN IF row = <<>>
          THEN Leave(t, c, IF c.op = "popitem" \/ c.value = MISSING THEN "KeyError"
                           ELSE "",
                     IF c.op = "popitem" THEN None ELSE c.value, View(t), wr, View(t))
          ELSE /\ pc' = [pc EXCEPT ![t] = "got"]
               /\ call' = [call EXCEPT ![t].pairs = row]
               /\ ev' = NoEv
               /\ UNCHANGED <<db, work, lock, txn_id, timeout, now, calls, scopes, exc,
                              retry_until, attempt, wr, added>>
    /\ UNCHANGED aux

\* the rest of the body: "cx.execute(self._statements["DELETE"], (key,))", the
\* return of the value (pop) or of the key and the value (popitem), and the exit of
\* the scope
TakeDelete(t) ==
    /\ pc[t] = "got"
    /\ LET c == call[t]
           row == c.pairs[1]
       IN /\ Leave(t, c, "", IF c.op = "popitem" THEN <<row.key, row.value>>
                             ELSE row.value,
                   DELETE(View(t), row.key).tbl,
                   Note(wr, Len(scopes[t]), row.key, MISSING), View(t))
          /\ taken' = Append(taken, [tid |-> t, key |-> row.key, value |-> row.value])
    /\ UNCHANGED <<seqVars, upd, conVars, default_expiration, columns, stores, declared,
                   late>>

\* what the store holds when the threads start to pop
PopStored == {<<Row(1, 1)>>, <<Row(1, 1), Row(2, 2)>>, <<Row(2, 1), Row(1, 2)>>}

PopInit ==
    /\ db \in PopStored
    /\ ThreadsIdle
    /\ SeqIdle
    /\ ConIdle
    /\ MoreIdle
    /\ upd = [t \in Threads |-> NoUpdate]

PopNext ==
    \E t \in Threads :
        \/ \E k \in Keys, d \in Defaults : pop(t, k, d)
        \/ popitem(t)
        \/ BeginImmediate(t)
        \/ TakeGet(t)
        \/ TakeDelete(t)
        \/ Catch(t)

\* threads that only pop from one store, each call short of the busy timeout
PopSpec == PopInit /\ [][PopNext]_vars

\* ------------------------------------------------- the cache
\* pickle.dumps and pickle.loads
dumps(x) == <<"pickle", x>>
loads(b) == b[2]

\* CacheValue.create at time t: "expires_at = 0.0; if expires: expires_at = time() +
\* expires"
create(value, expires, t) ==
    [value |-> dumps(value),
     expires_at |-> IF expires \notin {None, 0} THEN t + expires ELSE 0]

\* variant: an entry never expires
load_Always(row, default, t) == loads(row.value)

\* CacheValue.load at time t: "if expires_at == 0.0 or expires_at > time(): return
\* pickle.loads(self[0])", else the default
load(row, default, t) ==
    IF row.expires_at = 0 \/ row.expires_at > t THEN loads(row.value) ELSE default

\* DiskCache.set(key, value, expire): "if expire is None: expire =
\* self._default_expiration", then the store's __setitem__
CacheSet(k, v, expire) ==
    /\ db' = SET(db, k, create(v, IF expire = None THEN default_expiration ELSE expire,
                               now))
    /\ ev' = [NoEv EXCEPT !.what = "stmt", !.op = "cache.set", !.key = k,
                          !.value = [value |-> v, expire |-> expire], !.pre = db]
    /\ UNCHANGED <<work, lock, txn_id, timeout, now, calls, pc, scopes, exc, call,
                   retry_until, attempt, wr, added, aux>>

\* DiskCache.get(key, default): the default for KeyError, else the entry's load
CacheGet(k, default) ==
    /\ ev' = [NoEv EXCEPT !.what = "stmt", !.op = "cache.get", !.key = k,
                          !.value = default, !.pre = db,
                          !.ret = IF ~contains(db, k) THEN default
                                  ELSE load(getitem(db, k), default, now)]
    /\ UNCHANGED <<db, work, lock, txn_id, timeout, now, calls, pc, scopes, exc, call,
                   retry_until, attempt, wr, added, aux>>

\* DiskCache.add(key, value, expire): "v = CacheValue.create(value, expire)" and the
\* store's add; "if ret_key is None: return False", "return True"
CacheAdd(k, v, expire) ==
    LET r == ADD(db, k, create(v, expire, now))
    IN /\ db' = r.tbl
       /\ ev' = [NoEv EXCEPT !.what = "stmt", !.op = "cache.add", !.key = k,
                             !.value = [value |-> v, expire |-> expire], !.pre = db,
                             !.ret = r.rows # <<>>]
       /\ UNCHANGED <<work, lock, txn_id, timeout, now, calls, pc, scopes, exc, call,
                      retry_until, attempt, wr, added, aux>>

\* DiskCache.delete(key): the store's __delitem__, "return True", or False for
\* KeyError
CacheDelete(k) ==
    LET r == DELETE(db, k)
    IN /\ db' = r.tbl
       /\ ev' = [NoEv EXCEPT !.what = "stmt", !.op = "cache.delete", !.key = k,
                             !.pre = db, !.ret = r.rows # <<>>]
       /\ UNCHANGED <<work, lock, txn_id, timeout, now, calls, pc, scopes, exc, call,
                      retry_until, attempt, wr, added, aux>>

\* variant: the statement without "expires_at != 0.0"
DELETE_EXPIRED_NoZero(tbl, t) == SelectSeq(tbl, LAMBDA r : ~(r.value.expires_at < t))

\* "DELETE FROM Cache WHERE expires_at != 0.0 AND expires_at < ?" with time()
DELETE_EXPIRED(tbl, t) ==
    SelectSeq(tbl, LAMBDA r : ~(r.value.expires_at # 0 /\ r.value.expires_at < t))

\* DiskCache.delete_expired
CacheDeleteExpired ==
    /\ db' = DELETE_EXPIRED(db, now)
    /\ ev' = [NoEv EXCEPT !.what = "stmt", !.op = "cache.delete_expired", !.pre = db]
    /\ UNCHANGED <<work, lock, txn_id, timeout, now, calls, pc, scopes, exc, call,
                   retry_until, attempt, wr, added, aux>>

\* DiskCache.clear
CacheClear ==
    /\ db' = CLEAR(db)
    /\ ev' = [NoEv EXCEPT !.what = "stmt", !.op = "cache.clear", !.pre = db]
    /\ UNCHANGED <<work, lock, txn_id, timeout, now, calls, pc, scopes, exc, call,
                   retry_until, attempt, wr, added, aux>>

\* DiskCache.__len__ and DiskCache.__iter__: the store's, the keys through
\* pickle.loads
CacheLen ==
    /\ ev' = [NoEv EXCEPT !.what = "stmt", !.op = "cache.len", !.pre = db,
                          !.ret = len(db)]
    /\ UNCHANGED <<db, work, lock, txn_id, timeout, now, calls, pc, scopes, exc, call,
                   retry_until, attempt, wr, added, aux>>

CacheIter ==
    /\ ev' = [NoEv EXCEPT !.what = "stmt", !.op = "cache.iter", !.pre = db,
                          !.ret = [i \in 1..Len(db) |-> loads(dumps(db[i].key))]]
    /\ UNCHANGED <<db, work, lock, txn_id, timeout, now, calls, pc, scopes, exc, call,
                   retry_until, attempt, wr, added, aux>>

\* time passes between two calls
CachePass ==
    /\ now + TickStep <= MaxTime
    /\ now' = now + TickStep
    /\ ev' = NoEv
    /\ UNCHANGED <<db, work, lock, txn_id, timeout, calls, pc, scopes, exc, call,
                   retry_until, attempt, wr, added, aux>>

\* DiskCache.__init__ on a new file, with the default expiration the caller gives
CacheInit ==
    /\ StoreIdle
    /\ SeqIdle
    /\ ConIdle
    /\ taken = <<>>
    /\ columns = <<>>
    /\ stores = {}
    /\ declared = {}
    /\ LateIdle
    /\ default_expiration \in {0, TickStep, TIMEOUT}
    /\ upd = [t \in Threads |-> NoUpdate]

CacheNext ==
    \/ \E k \in Keys, v \in Values, expire \in {None, 0, TickStep, TIMEOUT} :
          CacheSet(k, v, expire)
    \/ \E k \in Keys : CacheGet(k, None)
    \/ \E k \in Keys, v \in Values, expire \in {None, TickStep} : CacheAdd(k, v, expire)
    \/ \E k \in Keys : CacheDelete(k)
    \/ CacheDeleteExpired
    \/ CacheClear
    \/ CacheLen
    \/ CacheIter
    \/ CachePass

\* one cache, set and read as time passes
CacheSpec == CacheInit /\ [][CacheNext]_vars

\* ------------------------------------------------- value classes and migration
\* the value classes of the runs, by their fields: one, and two that extend it by
\* trailing fields with defaults
Classes == {<<"name">>, <<"name", "label">>, <<"name", "label", "number">>}

\* the classes' "_field_defaults"
FieldDefault == [label |-> 10, number |-> 20]

\* the names in a sequence of columns or fields
Names(q) == {q[i] : i \in DOMAIN q}

\* variant: the table is made anew with the added column
AddColumn_NewTable(tbl, c) == <<>>

\* "ALTER TABLE t ADD COLUMN c type NOT NULL DEFAULT default": every row gets the
\* default in the new column
AddColumn(tbl, c) ==
    [i \in DOMAIN tbl |->
        Row(tbl[i].key, [x \in DOMAIN tbl[i].value \cup {c} |->
                            IF x = c THEN FieldDefault[c] ELSE tbl[i].value[x]])]

\* variant: the table is left with the fields of the class and no other column
alter_table_Recreate(cols, tbl, cls, n) ==
    [columns |-> cls,
     tbl |-> [i \in DOMAIN tbl |->
                Row(tbl[i].key, [x \in Names(cls) |->
                                    IF x \in DOMAIN tbl[i].value THEN tbl[i].value[x]
                                    ELSE FieldDefault[x]])]]

\* DiskStore._alter_table for the fields from the n-th on: "for columnname ...: if
\* columnname not in existing_fileds:" the column is added
RECURSIVE alter_table(_, _, _, _)
alter_table(cols, tbl, cls, n) ==
    IF n > Len(cls) THEN [columns |-> cols, tbl |-> tbl]
    ELSE IF cls[n] \in Names(cols) THEN alter_table(cols, tbl, cls, n + 1)
    ELSE alter_table(Append(cols, cls[n]), AddColumn(tbl, cls[n]), cls, n + 1)

\* "CREATE TABLE IF NOT EXISTS t (_key type PRIMARY KEY NOT NULL, field type NOT
\* NULL, ...)" on a file whose table has the columns cols (none: no table): the
\* columns afterwards, and those it declared a default for
CREATE(cols, cls) ==
    IF cols = <<>> THEN [columns |-> cls, declared |-> {}]
    ELSE [columns |-> cols, declared |-> {}]

\* DiskStore(filename, value_class=cls): CREATE, then _alter_table, whose columns
\* are declared "NOT NULL DEFAULT default"
Construct(cls) ==
    /\ LET c == CREATE(columns, cls)
           a == alter_table(c.columns, db, cls, 1)
       IN /\ columns' = a.columns
          /\ db' = a.tbl
          /\ declared' = (declared \cap Names(a.columns)) \cup c.declared
                            \cup (Names(a.columns) \ Names(c.columns))
    /\ stores' = stores \cup {cls}
    /\ ev' = [NoEv EXCEPT !.what = "init", !.pairs = cls, !.pre = db, !.held = columns]
    /\ UNCHANGED <<work, lock, txn_id, timeout, now, calls, pc, scopes, exc, call,
                   retry_until, attempt, wr, added, seqVars, upd, conVars, taken,
                   default_expiration, late>>

\* the columns the SET and ADD statements of an instance of class cls give no value
\* for and the table declares no default for: "NOT NULL constraint failed"
Unsupplied(cls) == Names(columns) \ (Names(cls) \cup declared)

\* the SET statement of an instance of class cls, "INSERT INTO t(_key, fields)
\* VALUES ... ON CONFLICT (_key) DO UPDATE SET field = excluded.field": the row to
\* insert has its default in every other column, and the statement fails when a
\* NOT NULL column is left without one; a present row keeps its other columns
AlterSet(cls, k, v) ==
    /\ cls \in stores
    /\ db' = IF Unsupplied(cls) # {} THEN db
             ELSE SET(db, k, [x \in Names(columns) |->
                                IF x \in Names(cls) THEN v[x]
                                ELSE IF contains(db, k) THEN getitem(db, k)[x]
                                ELSE FieldDefault[x]])
    /\ ev' = [NoEv EXCEPT !.what = "stmt", !.op = "set", !.key = k, !.pairs = cls,
                          !.pre = db,
                          !.exc = IF Unsupplied(cls) # {} THEN "ConstraintError" ELSE ""]
    /\ UNCHANGED <<work, lock, txn_id, timeout, now, calls, pc, scopes, exc, call,
                   retry_until, attempt, wr, added, aux>>

\* __getitem__ of an instance of class cls: "SELECT fields FROM t WHERE _key = ?"
\* and "self._value_class(*row)", or KeyError
AlterGet(cls, k) ==
    /\ cls \in stores
    /\ ev' = [NoEv EXCEPT !.what = "stmt", !.op = "getitem", !.key = k, !.pairs = cls,
                          !.pre = db,
                          !.exc = IF contains(db, k) THEN "" ELSE "KeyError",
                          !.ret = IF contains(db, k)
                                  THEN [i \in DOMAIN cls |-> getitem(db, k)[cls[i]]]
                                  ELSE <<>>]
    /\ UNCHANGED <<db, work, lock, txn_id, timeout, now, calls, pc, scopes, exc, call,
                   retry_until, attempt, wr, added, aux>>

\* a file without the table
AlterInit ==
    /\ StoreIdle
    /\ SeqIdle
    /\ ConIdle
    /\ MoreIdle
    /\ upd = [t \in Threads |-> NoUpdate]

AlterNext ==
    \/ \E cls \in Classes : Construct(cls)
    \/ \E cls \in Classes, k \in Keys : \E v \in [Names(cls) -> Values] : AlterSet(cls, k, v)
    \/ \E cls \in Classes, k \in Keys : AlterGet(cls, k)

\* stores of one table constructed with the value class and with its extensions
AlterSpec == AlterInit /\ [][AlterNext]_vars

\* ------------------------------------------------- connections and fork
\* what the use of connections leaves alone
data == <<work, lock, txn_id, timeout, now, calls, pc, scopes, exc, call, retry_until,
          attempt, wr, added, ev, seqVars, upd, more>>

\* the store object's connection state in all processes, its options, and the file
Heap == [local |-> local, conns |-> conns, handles |-> handles, pragmas |-> pragmas,
         file |-> file]

\* variant: close() closes the connections of all threads of the process
close_All(p, t, s) ==
    [s EXCEPT !.handles = {h \in @ : h[1] # p},
              !.local[p] = [t2 \in Threads |-> [@[t2] EXCEPT !.con = None]]]

\* DiskRead.close in thread t of process p: "con = getattr(self._local, "con", None);
\* if con is None: return; con.close(); delattr(self._local, "con")"
close(p, t, s) ==
    LET con == s.local[p][t].con
    IN IF con = None THEN s
       ELSE [s EXCEPT !.handles = @ \ {<<p, t, con>>}, !.local[p][t].con = None]

\* variant: the options are applied to the store's first connection only
Connection_OncePerStore(p, t, s) ==
    [proc |-> p, tid |-> t, pragmas |-> IF s.conns = <<>> THEN s.pragmas ELSE NoPragmas,
     readonly |-> FALSE]

\* the connection DiskStore._con makes: "Connection(self._filename)",
\* "set_busy_timeout", "for key, value in self._pragmas.items(): con.pragma(key,
\* value)"
Connection(p, t, s) ==
    [proc |-> p, tid |-> t, pragmas |-> s.pragmas, readonly |-> FALSE]

\* the heap with the connection c opened by thread t of process p
Opened(p, t, s, c) ==
    LET id == Len(s.conns) + 1
    IN [s EXCEPT !.conns = Append(@, c),
                 !.handles = @ \cup {<<p, t, id>>},
                 !.local[p][t].con = id]

\* variant: a changed process id is recorded and the connection is kept
Con_KeepsInherited(p, t, s) ==
    LET s1 == [s EXCEPT !.local[p][t].pid = p]
    IN IF s1.local[p][t].con = None
       THEN Opened(p, t, [s1 EXCEPT !.file = IF @ = "absent" THEN "empty" ELSE @],
                   Connection(p, t, s1))
       ELSE s1

\* the _con property of DiskStore read by thread t of process p: "if local_pid !=
\* pid: self.close(); self._local.pid = pid", then "if con is None: con =
\* self._local.con = Connection(self._filename)", which creates a file that is
\* absent
Con(p, t, s) ==
    LET s1 == IF s.local[p][t].pid # p
              THEN [close(p, t, s) EXCEPT !.local[p][t].pid = p]
              ELSE s
    IN IF s1.local[p][t].con = None
       THEN Opened(p, t, [s1 EXCEPT !.file = IF @ = "absent" THEN "empty" ELSE @],
                   Connection(p, t, s1))
       ELSE s1

\* variant: the connection is opened without SQLITE_OPEN_READONLY
ReadCon_Creates(p, t, s) ==
    LET s1 == IF s.local[p][t].pid # p
              THEN [close(p, t, s) EXCEPT !.local[p][t].pid = p]
              ELSE s
    IN IF s1.local[p][t].con = None
       THEN Opened(p, t, [s1 EXCEPT !.file = IF @ = "absent" THEN "empty" ELSE @],
                   [proc |-> p, tid |-> t, pragmas |-> NoPragmas, readonly |-> FALSE])
       ELSE s1

\* the _con property of DiskRead: as that of DiskStore, but "Connection(
\* self._filename, flags=apsw.SQLITE_OPEN_READONLY)", which raises when the file is
\* absent, and no pragmas
ReadCon(p, t, s) ==
    LET s1 == IF s.local[p][t].pid # p
              THEN [close(p, t, s) EXCEPT !.local[p][t].pid = p]
              ELSE s
    IN IF s1.local[p][t].con = None /\ s1.file # "absent"
       THEN Opened(p, t, s1,
                   [proc |-> p, tid |-> t, pragmas |-> NoPragmas, readonly |-> TRUE])
       ELSE s1

\* thread t of process p reads self._con and gets a cursor of it: the heap
\* afterwards, and cev for the statement "what" the cursor then executes, "error"
\* when no connection could be opened
Access(p, t, what) ==
    LET s == IF klass = "DiskRead" THEN ReadCon(p, t, Heap) ELSE Con(p, t, Heap)
    IN /\ klass # ""
       /\ p \in alive
       /\ Len(s.conns) <= MaxCons
       /\ local' = s.local
       /\ conns' = s.conns
       /\ handles' = s.handles
       /\ file' = s.file
       /\ cev' = [NoCev EXCEPT
                     !.what = IF s.local[p][t].con = None THEN "error" ELSE what,
                     !.proc = p, !.tid = t, !.con = s.local[p][t].con,
                     !.had = local[p][t], !.made = Len(s.conns) > Len(conns),
                     !.saw = IF s.local[p][t].con = None THEN <<>> ELSE db]
       /\ UNCHANGED <<alive, klass, pragmas>>

\* DiskStore(filename, **opts) in thread 1 of process 1: "self._pragmas =
\* DEFAULT_PRAGMAS.copy(); self._pragmas.update(pragmas); sql = self._con.execute",
\* CREATE TABLE IF NOT EXISTS
ConstructStore(opts) ==
    /\ klass = ""
    /\ klass' = "DiskStore"
    /\ pragmas' = Updated(DEFAULT_PRAGMAS, opts)
    /\ LET s == Con(1, 1, [Heap EXCEPT !.pragmas = pragmas'])
       IN /\ local' = s.local
          /\ conns' = s.conns
          /\ handles' = s.handles
          /\ cev' = [NoCev EXCEPT !.what = "init", !.proc = 1, !.tid = 1,
                                  !.con = s.local[1][1].con, !.had = local[1][1],
                                  !.made = TRUE, !.opts = opts]
    /\ file' = "table"
    /\ UNCHANGED <<alive, cur, db, data>>

\* DiskRead(filename) in thread 1 of process 1: "Does not connect on init!"
ConstructRead ==
    /\ klass = ""
    /\ klass' = "DiskRead"
    /\ cev' = [NoCev EXCEPT !.what = "init", !.proc = 1, !.tid = 1,
                            !.had = local[1][1]]
    /\ UNCHANGED <<alive, local, conns, handles, cur, file, pragmas, db, data>>

\* a reading call outside a scope: "with self._cursor() as cursor:
\* cursor.execute(...)"
Statement(p, t) ==
    /\ cur[p][t] = None
    /\ Access(p, t, "stmt")
    /\ UNCHANGED <<cur, db, data>>

\* store[k] = v outside a scope, in a store nothing was written to; the runs write
\* a row of Stored
ConSetitem(p, t, k, v) ==
    /\ klass = "DiskStore"
    /\ cur[p][t] = None
    /\ db = <<>>
    /\ SET(db, k, v) \in Stored
    /\ Access(p, t, "stmt")
    /\ db' = SET(db, k, v)
    /\ UNCHANGED <<cur, data>>

\* transact: "cursor = self._con.cursor()", "cursor.execute("BEGIN IMMEDIATE")",
\* "yield cursor"
ConTransact(p, t) ==
    /\ klass = "DiskStore"
    /\ cur[p][t] = None
    /\ Access(p, t, "begin")
    /\ cur' = [cur EXCEPT ![p][t] = local'[p][t].con]
    /\ UNCHANGED <<db, data>>

\* the exit of the scope: "cursor.execute("COMMIT")" (or ROLLBACK) on the cursor
\* taken at entry, "cursor.close()"; on a closed connection the execute raises
ConExitScope(p, t) ==
    /\ p \in alive
    /\ cur[p][t] # None
    /\ cur' = [cur EXCEPT ![p][t] = None]
    /\ cev' = [NoCev EXCEPT
                  !.what = IF <<p, t, cur[p][t]>> \in handles THEN "end" ELSE "error",
                  !.proc = p, !.tid = t, !.con = cur[p][t], !.had = local[p][t]]
    /\ UNCHANGED <<alive, local, conns, handles, klass, file, pragmas, db, data>>

\* store.close() in thread t of process p
ConClose(p, t) ==
    /\ klass # ""
    /\ p \in alive
    /\ LET s == close(p, t, Heap)
       IN /\ local' = s.local
          /\ handles' = s.handles
    /\ cev' = [NoCev EXCEPT !.what = "close", !.proc = p, !.tid = t,
                            !.con = local[p][t].con, !.had = local[p][t]]
    /\ UNCHANGED <<alive, conns, cur, klass, file, pragmas, db, data>>

\* os.fork() in thread t of process p: the child q is a copy of p in which only t
\* runs; it has t's thread-local state and open cursor, and every handle open in p
\* (those of p's other threads belong to no thread of q)
Fork(p, t, q) ==
    /\ klass # ""
    /\ p \in alive
    /\ q \notin alive
    /\ alive' = alive \cup {q}
    /\ local' = [local EXCEPT ![q] = [t2 \in Threads |->
                                        IF t2 = t THEN local[p][t] ELSE NoLocal]]
    /\ cur' = [cur EXCEPT ![q] = [t2 \in Threads |->
                                    IF t2 = t THEN cur[p][t] ELSE None]]
    /\ handles' = handles \cup
                   {<<q, IF h[2] = t THEN t ELSE None, h[3]>> :
                        h \in {h2 \in handles : h2[1] = p}}
    /\ cev' = [NoCev EXCEPT !.what = "fork", !.proc = q, !.tid = t,
                            !.had = local[p][t]]
    /\ UNCHANGED <<conns, klass, file, pragmas, db, data>>

\* a path at which the file is absent or holds the table, and no store object yet
ConInit ==
    /\ StoreIdle
    /\ SeqIdle
    /\ MoreIdle
    /\ upd = [t \in Threads |-> NoUpdate]
    /\ alive = {1}
    /\ local = [p \in Procs |-> [t \in Threads |-> NoLocal]]
    /\ conns = <<>>
    /\ handles = {}
    /\ cur = [p \in Procs |-> [t \in Threads |-> None]]
    /\ cev = NoCev
    /\ klass = ""
    /\ file \in {"absent", "table"}
    /\ pragmas = NoPragmas

ConNext ==
    \/ \E opts \in Options : ConstructStore(opts)
    \/ ConstructRead
    \/ \E p \in Procs, t \in Threads :
        \/ Statement(p, t)
        \/ \E k \in Keys, v \in Values : ConSetitem(p, t, k, v)
        \/ ConTransact(p, t)
        \/ ConExitScope(p, t)
        \/ ConClose(p, t)
        \/ \E q \in Procs : Fork(p, t, q)

\* the threads of the processes that hold one store object, using its connections
ConSpec == ConInit /\ [][ConNext]_vars

\* ------------------------------------------------------------ properties
\* the table every connection reads once no transaction is open
Latest == IF lock = None THEN db ELSE work

\* tables a and b hold the same entry, or none, for every key but k
SameBut(a, b, k) == \A k2 \in Keys \ {k} : getitem(a, k2) = getitem(b, k2)

\* the last step left an outermost scope: its transaction ended
LeftOutermost == ev.what = "leave" /\ ev.begin

\* C1: when an exception leaves an outermost transact scope, the transaction is
\* rolled back and the store holds exactly what it held when the scope was entered,
\* for every thread that reads it
C1_RollbackRestoresStore ==
    (LeftOutermost /\ ev.exc # "") =>
        /\ ev.sql = "ROLLBACK"
        /\ \A t \in Threads : View(t) = ev.pre

\* a scope set a key that was absent, raised, and the key is not contained
C1_Witness ==
    /\ LeftOutermost /\ ev.op = "transact" /\ ev.exc = "Error"
    /\ \E k \in Keys :
        /\ ev.wr[k].val \in Values
        /\ ~contains(ev.pre, k)
        /\ ~contains(db, k)

\* C2: when the body of an outermost transact scope ends without an exception the
\* transaction is committed, and every thread reads, for each key the scope wrote,
\* what the scope wrote last
C2_CommitPublishesWrites ==
    (LeftOutermost /\ ev.exc = "") =>
        /\ ev.sql = "COMMIT"
        /\ \A k \in Keys : ev.wr[k].depth > 0 =>
              \A t \in Threads : getitem(View(t), k) = ev.wr[k].val

\* a scope changed the value of a key and committed
C2_Witness ==
    /\ LeftOutermost /\ ev.op = "transact" /\ ev.sql = "COMMIT"
    /\ \E k \in Keys :
        /\ ev.wr[k].val \in Values
        /\ getitem(ev.pre, k) # ev.wr[k].val
        /\ getitem(db, k) = ev.wr[k].val

\* C3: BEGIN is issued only by a thread with no open scope, every scope but a
\* thread's outermost has begin false, leaving a nested scope issues no COMMIT and no
\* ROLLBACK and leaves the transaction open with nothing of it committed, and what a
\* nested scope wrote is committed or rolled back by the outermost scope
C3_OnlyOutermostBeginsAndEnds ==
    /\ \A t \in Threads :
        /\ pc[t] = "begin" => scopes[t] = <<>>
        /\ scopes[t] # <<>> => scopes[t][1].begin /\ lock = t
        /\ \A i \in 2..Len(scopes[t]) : ~scopes[t][i].begin
    /\ ev.what = "begin" => ev.depth = 1
    /\ (ev.what = "leave" /\ ev.depth > 0) =>
        /\ ev.sql = ""
        /\ lock = ev.tid
        /\ db = scopes[ev.tid][1].pre
    /\ (ev.what = "leave" /\ ev.depth = 0) =>
        /\ ev.sql \in {"COMMIT", "ROLLBACK"}
        /\ ev.sql = "ROLLBACK" => db = ev.pre
        /\ ev.sql = "COMMIT" =>
              \A k \in Keys : ev.wr[k].depth > 1 => getitem(db, k) = ev.wr[k].val

\* the outermost scope was left by an exception after a nested scope set a key that
\* was absent, and the key is not contained
C3_Witness ==
    /\ LeftOutermost /\ ev.exc # "" /\ ev.sql = "ROLLBACK"
    /\ \E k \in Keys :
        /\ ev.wr[k].depth > 1
        /\ ev.wr[k].val \in Values
        /\ ~contains(db, k)

ScopeOps == {"transact", "pop", "update"}

\* C4: a transact(retry=False) that finds the write lock held by another thread
\* never goes round the retry loop; it raises BusyError with the store, the holder's
\* transaction and the owner marker as they were, and opens no scope
C4_NoRetryFailsAtOnce ==
    /\ \A t \in Threads :
        (pc[t] = "begin" /\ ~call[t].retry) => attempt[t] = call[t].entered
    /\ (ev.what = "busy" /\ ev.op \in ScopeOps /\ ~ev.retry) =>
        /\ ~ev.retried
        /\ exc[ev.tid] = "BusyError"
        /\ scopes[ev.tid] = <<>>
        /\ lock \notin {None, ev.tid}
        /\ txn_id = lock
        /\ db = ev.pre
        /\ work = ev.held

\* transact(retry=False) raised BusyError while the holder had uncommitted writes
C4_Witness ==
    /\ ev.what = "busy" /\ ev.op = "transact" /\ ~ev.retry
    /\ work # db

C6_DeadlineIsConfiguredTimeout ==
    /\ \A t \in Threads :
        (pc[t] = "begin" /\ call[t].retry /\ attempt[t] # call[t].entered) =>
            attempt[t] < call[t].entered + timeout
    /\ (ev.what = "busy" /\ ev.op \in ScopeOps /\ ev.retry) =>
            now >= ev.entered + timeout

\* a retrying thread went round the loop when the store's configured timeout, shorter
\* than TIMEOUT, had elapsed since it entered
C6_Witness ==
    /\ timeout < TIMEOUT
    /\ \E t \in Threads :
        /\ pc[t] = "begin" /\ call[t].retry
        /\ attempt[t] >= call[t].entered + timeout
        /\ now < retry_until[t]

\* C7: after set(k, v) returns, the calling thread reads v for k and k is contained,
\* and every other key is as before
C7_SetThenGet ==
    (ev.what = "stmt" /\ ev.op = "set") =>
        /\ ev.exc = ""
        /\ getitem(View(ev.tid), ev.key) = ev.value
        /\ contains(View(ev.tid), ev.key)
        /\ SameBut(View(ev.tid), ev.pre, ev.key)

\* set overwrote another value of a key, with a second key in the store
C7_Witness ==
    /\ ev.what = "stmt" /\ ev.op = "set"
    /\ contains(ev.pre, ev.key)
    /\ getitem(ev.pre, ev.key) # ev.value
    /\ len(ev.pre) > 1

\* C8: delete(k) of a present key removes k and nothing else; delete(k) of an absent
\* key raises KeyError and leaves the store as it was
C8_Delete ==
    (ev.what = "stmt" /\ ev.op = "delete") =>
        IF contains(ev.pre, ev.key)
        THEN /\ ev.exc = ""
             /\ ~contains(View(ev.tid), ev.key)
             /\ len(View(ev.tid)) = len(ev.pre) - 1
             /\ SameBut(View(ev.tid), ev.pre, ev.key)
        ELSE /\ ev.exc = "KeyError"
             /\ View(ev.tid) = ev.pre

\* delete removed one of two keys
C8_Witness ==
    /\ ev.what = "stmt" /\ ev.op = "delete" /\ ev.exc = ""
    /\ len(ev.pre) > 1
    /\ len(View(ev.tid)) = 1

\* C9: add(k, v) of an absent key inserts (k, v) and returns k; add of a present key
\* returns None and leaves the store as it was; and of the add calls made for a key
\* since it was last absent, at most one returned the key, and the key holds that
\* call's value
C9_Add ==
    /\ (ev.what = "stmt" /\ ev.op = "add") =>
        /\ ev.exc = ""
        /\ IF contains(ev.pre, ev.key)
           THEN /\ ev.ret = None
                /\ View(ev.tid) = ev.pre
           ELSE /\ ev.ret = ev.key
                /\ getitem(View(ev.tid), ev.key) = ev.value
                /\ len(View(ev.tid)) = len(ev.pre) + 1
                /\ SameBut(View(ev.tid), ev.pre, ev.key)
    /\ \A k \in Keys :
        /\ Cardinality(added[k]) <= 1
        /\ \A a \in added[k] : getitem(Latest, k) = a[2]

\* a thread's add got None for a key another thread's add had got back, and the key
\* holds the other thread's value
C9_Witness ==
    /\ ev.what = "stmt" /\ ev.op = "add" /\ ev.ret = None
    /\ \E a \in added[ev.key] :
        /\ a[1] # ev.tid
        /\ a[2] # ev.value
        /\ getitem(View(ev.tid), ev.key) = a[2]

\* C10: pop of a present key returns its value and removes that key only; pop of an
\* absent key returns the default and changes nothing, or raises KeyError and changes
\* nothing when no default is given; and a transaction pop began is ended by then
C10_Pop ==
    (ev.what = "leave" /\ ev.op = "pop") =>
        /\ IF contains(ev.pre, ev.key)
           THEN /\ ev.exc = ""
                /\ ev.ret = getitem(ev.pre, ev.key)
                /\ ~contains(View(ev.tid), ev.key)
                /\ len(View(ev.tid)) = len(ev.pre) - 1
                /\ SameBut(View(ev.tid), ev.pre, ev.key)
           ELSE /\ ev.exc = (IF ev.value = MISSING THEN "KeyError" ELSE "")
                /\ ev.value # MISSING => ev.ret = ev.value
                /\ View(ev.tid) = ev.pre
        /\ ev.begin =>
            /\ ev.sql \in {"COMMIT", "ROLLBACK"}
            /\ lock # ev.tid
            /\ txn_id # ev.tid
            /\ scopes[ev.tid] = <<>>

\* pop began a transaction, removed one of two keys and committed
C10_Witness ==
    /\ ev.what = "leave" /\ ev.op = "pop" /\ ev.begin /\ ev.sql = "COMMIT"
    /\ contains(ev.pre, ev.key)
    /\ len(ev.pre) > 1
    /\ len(db) = 1

\* the entries of a table or dictionary, as a set of (key, value)
Entries(tbl) == {<<tbl[i].key, tbl[i].value>> : i \in 1..Len(tbl)}

\* q is strictly ascending
Ascending(q) == \A i \in 1..Len(q), j \in 1..Len(q) : i < j => q[i] < q[j]

\* C11: popitem on an empty store raises KeyError and changes nothing; on a
\* non-empty store it returns and removes exactly one entry: for the BLOB, TEXT and
\* REAL key types the entry inserted most recently among those in the store, and for
\* the INTEGER key type the entry with the largest key
C11_PopitemRemovesLastRowid ==
    res.op = "popitem" =>
        IF res.pre = <<>>
        THEN res.exc = "KeyError" /\ tab = res.pre
        ELSE /\ res.exc = ""
             /\ <<res.ret[1], res.ret[2]>> \in Entries(res.pre)
             /\ Entries(tab) = Entries(res.pre) \ {<<res.ret[1], res.ret[2]>>}
             /\ ITER(tab) = ITER(DELETE(res.pre, res.ret[1]).tbl)
             /\ IF key_type = "INTEGER"
                THEN \A i \in 1..Len(res.pre) : res.pre[i].key <= res.ret[1]
                ELSE res.ret = res.ref

\* C11 as stated: for every key type popitem returns the entry inserted most recently
C11_PopitemRemovesLastInserted ==
    (res.op = "popitem" /\ res.pre # <<>>) => res.ret = res.ref

\* popitem on a TEXT store whose most recent entry has the smaller of two keys
C11_Witness ==
    /\ res.op = "popitem" /\ key_type = "TEXT"
    /\ Len(res.preod) = 2
    /\ res.preod[1].key > res.preod[2].key
    /\ res.ret[1] = res.preod[2].key
    /\ Len(tab) = 1

\* C12: after nothing but inserts of distinct keys into an empty store, iteration
\* yields the keys in insertion order for the BLOB, TEXT and REAL key types and in
\* ascending key order for the INTEGER key type, and reverse iteration yields the
\* reverse of that
C12_IterationOrder ==
    (res.op \in {"iter", "reversed"} /\ res.fresh) =>
        LET keys == IF res.op = "iter" THEN res.ret ELSE Reverse(res.ret)
        IN /\ res.exc = ""
           /\ Len(keys) = Len(res.preod)
           /\ {keys[i] : i \in 1..Len(keys)} = {res.preod[i].key : i \in 1..Len(res.preod)}
           /\ IF key_type = "INTEGER"
              THEN Ascending(keys)
              ELSE keys = DictKeys(res.preod)

\* C12 as stated: insertion order for every key type
C12_InsertionOrderForEveryKeyType ==
    (res.op \in {"iter", "reversed"} /\ res.fresh) =>
        res.ret = (IF res.op = "iter" THEN DictKeys(res.preod)
                   ELSE Reverse(DictKeys(res.preod)))

\* reverse iteration of a REAL store after inserting the larger of two keys first
C12_Witness ==
    /\ res.op = "reversed" /\ res.fresh /\ key_type = "REAL"
    /\ Len(res.preod) = 2
    /\ res.preod[1].key > res.preod[2].key
    /\ res.ret = <<res.preod[2].key, res.preod[1].key>>

\* the calls C13 is about
DictOps == {"getitem", "set", "pop", "popitem", "len", "iter", "reversed"}

\* the entries of a table or dictionary, in order
Items(tbl) == [i \in 1..Len(tbl) |-> <<tbl[i].key, tbl[i].value>>]

\* C13: beside a store of the default key type, an insertion-ordered dictionary given
\* the same calls returns and raises the same on every getitem, set, pop, popitem,
\* len, iteration and reverse iteration, and the two hold the same entries in the
\* same order
C13_RefinesOrderedDict ==
    key_type = "BLOB" =>
        /\ Items(tab) = Items(od)
        /\ res.op \in DictOps => res.ret = res.ref /\ res.exc = res.refexc

\* popitem, the last call of a run that ended with a set, returns the entry of the
\* smaller of two keys, which was inserted after the larger
C13_Witness ==
    /\ key_type = "BLOB" /\ res.op = "popitem" /\ res.exc = ""
    /\ res.prev.op = "set"
    /\ Len(res.preod) = 2
    /\ res.preod[1].key > res.preod[2].key
    /\ res.ret = <<res.preod[2].key, res.preod[2].value>>
    /\ nops = MaxOps

\* C16: setdefault(k, d) in a single-threaded run returns the stored value and
\* changes nothing if k is present; inserts (k, d) and returns d if k is absent and
\* d is not None; returns None and inserts nothing if k is absent and d is None
C16_Setdefault ==
    res.op = "setdefault" =>
        /\ res.exc = ""
        /\ IF contains(res.pre, res.key)
           THEN /\ res.ret = <<getitem(res.pre, res.key)>>
                /\ tab = res.pre
           ELSE IF res.value # None
           THEN /\ res.ret = <<res.value>>
                /\ getitem(tab, res.key) = res.ret[1]
                /\ Entries(tab) = Entries(res.pre) \cup {<<res.key, res.value>>}
                /\ len(tab) = len(res.pre) + 1
           ELSE /\ res.ret = <<None>>
                /\ tab = res.pre

\* setdefault of a present key with a default other than the stored value
C16_Witness ==
    /\ res.op = "setdefault"
    /\ contains(res.pre, res.key)
    /\ res.value \in Values
    /\ res.ret # <<res.value>>
    /\ getitem(tab, res.key) = res.ret[1]

\* C17: a second set(k, v) right after set(k, v) leaves the store as the first left
\* it: the same entries, the same len, the same iteration order
C17_SetIdempotent ==
    (res.op = "set" /\ res.prev = SeqCall("set", res.key, res.value)) =>
        /\ res.exc = ""
        /\ Items(tab) = Items(res.pre)
        /\ len(tab) = len(res.pre)
        /\ ITER(tab) = ITER(res.pre)
        /\ REVERSED(tab) = REVERSED(res.pre)

\* the same set twice in a row on the first of two keys
C17_Witness ==
    /\ res.op = "set" /\ res.prev = SeqCall("set", res.key, res.value)
    /\ Len(tab) = 2
    /\ tab[1].key = res.key
    /\ nops = MaxOps

\* the largest key of a non-empty table of INTEGER keys
LargestKey(tbl) == CHOOSE k \in KeySet(tbl) : \A k2 \in KeySet(tbl) : k2 <= k

\* C18: on an INTEGER store add(None, v) inserts v under a key that was not present,
\* returns that key and changes no other entry; the key is 1 on an empty store and
\* one more than the largest key while that is below the largest rowid
C18_AddAssignsKey ==
    (key_type = "INTEGER" /\ res.op = "add" /\ res.key = None) =>
        /\ res.exc = ""
        /\ res.ret # <<None>>
        /\ ~contains(res.pre, res.ret[1])
        /\ getitem(tab, res.ret[1]) = res.value
        /\ Entries(tab) = Entries(res.pre) \cup {<<res.ret[1], res.value>>}
        /\ len(tab) = len(res.pre) + 1
        /\ res.pre = <<>> => res.ret[1] = 1
        /\ (res.pre # <<>> /\ LargestKey(res.pre) < MaxRowid) =>
               res.ret[1] = LargestKey(res.pre) + 1

\* C18 as stated: the key is always 1 or one more than the largest key
C18_AddAssignsNextKey ==
    (key_type = "INTEGER" /\ res.op = "add" /\ res.key = None) =>
        res.ret = <<IF res.pre = <<>> THEN 1 ELSE LargestKey(res.pre) + 1>>

\* add(None, v) on a store that holds the key 2 only returns 3
C18_Witness ==
    /\ key_type = "INTEGER" /\ res.op = "add" /\ res.key = None
    /\ ITER(res.pre) = <<2>>
    /\ res.ret = <<3>>
    /\ ITER(tab) = <<2, 3>>

\* the pairs as the SET statement binds them: "(key, *value)"
Bound(pairs) == [i \in DOMAIN pairs |-> Row(pairs[i].key, pairs[i].value.field)]

\* thread t is inside an update that issued BEGIN IMMEDIATE itself
UpdatingAlone(t) ==
    /\ pc[t] = "body"
    /\ call[t].op = "update"
    /\ Top(t).begin

\* C14 (as the code has it): an update that is not nested in an open scope of its
\* thread is all-or-nothing.  While it runs every other thread reads the table as
\* it was before the call; when a pair is refused the transaction is rolled back
\* and every thread reads the table as it was before the call; when it returns the
\* transaction is committed and the table is the one that a set of each positional
\* pair in order, then of each keyword pair in order, leaves.
C14_UpdateAloneAllOrNothing ==
    /\ \A t \in Threads :
          UpdatingAlone(t) =>
              /\ db = upd[t].pre
              /\ \A t2 \in Threads \ {t} : View(t2) = upd[t].pre
    /\ (ev.what = "leave" /\ ev.op = "update" /\ ev.begin) =>
          LET u == upd[ev.tid]
          IN /\ ev.pre = u.pre
             /\ lock = None
             /\ IF ev.exc = ""
                THEN /\ ev.sql = "COMMIT"
                     /\ db = SetMany(SetMany(u.pre, Bound(u.other)), Bound(u.kwargs))
                ELSE /\ ev.sql = "ROLLBACK"
                     /\ db = u.pre
             /\ \A t2 \in Threads : View(t2) = db

\* C14 (as stated): whenever applying a pair of an update fails, the store holds
\* none of the pairs of that call: the calling thread reads the table as it was
\* before the call.
C14_FailedUpdateLeavesNoPair ==
    (ev.what = "leave" /\ ev.op = "update" /\ ev.exc # "") =>
        View(ev.tid) = ev.pre

\* an update of a stored table, given a positional pair and a keyword pair for the
\* same key, began its own transaction, set the first, had the second refused, and
\* was rolled back
C14_Witness ==
    /\ ev.what = "leave" /\ ev.op = "update" /\ ev.begin
    /\ ev.exc = "ConstraintError"
    /\ ev.pre # <<>>
    /\ ev.wr # NoWrites
    /\ Len(upd[ev.tid].other) = 1
    /\ Len(upd[ev.tid].kwargs) = 1
    /\ upd[ev.tid].other[1].key = upd[ev.tid].kwargs[1].key
    /\ db = ev.pre

\* __setitem__, add, or a setdefault that found no entry, was given a value that is
\* no instance of the value class
GivenNoInstance ==
    /\ ev.what = "stmt"
    /\ ev.op \in {"set", "add", "setdefault"}
    /\ ev.value.cls # "Value"
    /\ ev.op = "setdefault" => ~contains(ev.pre, ev.key)

\* an update given a pair whose value is no instance of the value class is over
UpdatedNoInstance ==
    /\ ev.what = "leave"
    /\ ev.op = "update"
    /\ \E i \in DOMAIN ev.pairs : ev.pairs[i].value.cls # "Value"

\* the call raised ValueError and its thread reads the table as before the call
Refused == ev.exc = "ValueError" /\ View(ev.tid) = ev.pre

\* the single-statement writes validate what they are given
SingleWritesValidate == GivenNoInstance => Refused

\* C15 (as stated): every write operation (set, add, setdefault when it inserts,
\* update for each of its pairs) given a value that is no instance of the store's
\* value class raises a validation error at that call and leaves the store
\* unchanged.
C15_NoInstanceIsRefused == (GivenNoInstance \/ UpdatedNoInstance) => Refused

\* update was given a plain tuple for a key, returned without an exception, and the
\* store holds the tuple's field under the key
C15_Witness ==
    /\ UpdatedNoInstance
    /\ ev.exc = ""
    /\ ev.pairs[1].value = Given("tuple", 1)
    /\ getitem(db, ev.pairs[1].key) = 1
    /\ getitem(ev.pre, ev.pairs[1].key) # 1

\* the open handles thread t of process p holds
Live(p, t) == {h \in handles : h[1] = p /\ h[2] = t}

\* the last step read self._con
Accessed == cev.what \in {"stmt", "begin"}

\* C19: each thread of each process holds at most one open connection, the one its
\* thread-local state names; a thread that reads _con again in the same process
\* gets the connection it has; a connection is opened only by a read of _con that
\* finds none for its thread; and _con returns a connection that the reading
\* thread opened itself, in the reading process.
C19_OneConnectionPerThread ==
    /\ \A p \in alive, t \in Threads :
          /\ Cardinality(Live(p, t)) <= 1
          /\ \A h \in Live(p, t) : local[p][t].con = h[3]
          /\ local[p][t].con # None => <<p, t, local[p][t].con>> \in handles
    /\ Accessed =>
          /\ (cev.had.pid = cev.proc /\ cev.had.con # None) =>
                (cev.con = cev.had.con /\ ~cev.made)
          /\ cev.made <=> (cev.had.con = None \/ cev.had.pid # cev.proc)
          /\ cev.made => cev.con = Len(conns)
          /\ conns[cev.con].proc = cev.proc
          /\ conns[cev.con].tid = cev.tid
          /\ local[cev.proc][cev.tid] = [pid |-> cev.proc, con |-> cev.con]

\* in a process with two open connections, one per thread, a thread read _con
\* again and got the connection it already had
C19_Witness ==
    /\ Accessed
    /\ ~cev.made
    /\ cev.had.con = cev.con
    /\ \E t \in Threads \ {cev.tid} :
          /\ Live(cev.proc, t) # {}
          /\ local[cev.proc][t].con # cev.con

\* a statement ran: through a fresh read of _con, or at the exit of a scope
Ran == cev.what \in {"stmt", "begin", "end"}

\* C20 (as stated): no statement of a forked process runs on a connection opened in
\* its parent: the first read of _con in the child finds the recorded process id
\* differ, closes and discards the inherited connection, opens a new one and
\* records the child's process id.
C20_ChildNeverUsesParentConnection ==
    /\ Ran => conns[cev.con].proc = cev.proc
    /\ (Accessed /\ cev.had.pid # cev.proc /\ cev.had.con # None) =>
          /\ <<cev.proc, cev.tid, cev.had.con>> \notin handles
          /\ cev.made
          /\ local[cev.proc][cev.tid].pid = cev.proc

\* a thread forked inside a transact scope, and the child left the scope: its
\* COMMIT ran on the connection the parent opened
C20_Witness ==
    /\ cev.what = "end"
    /\ cev.proc # 1
    /\ conns[cev.con].proc = 1
    /\ <<1, cev.tid, cev.con>> \in handles

\* the reads of _con alone: a read in a forked process that finds the parent's
\* process id recorded closes the inherited connection and opens its own
ForkDetected ==
    (Accessed /\ cev.had.pid # cev.proc /\ cev.had.con # None) =>
        /\ <<cev.proc, cev.tid, cev.had.con>> \notin handles
        /\ cev.made
        /\ conns[cev.con].proc = cev.proc
        /\ local[cev.proc][cev.tid].pid = cev.proc

\* C27: while a thread's transaction is open the committed table stays the one the
\* transaction began from and every other thread reads it; when the outermost scope
\* commits every thread reads the scope's table; and that table is the one the
\* scope began from with the scope's writes applied and nothing else, so the
\* transactions take effect one after another, in the order of their commits.
C27_IsolatedAndSerial ==
    /\ \A t \in Threads :
          lock = t =>
              /\ scopes[t] # <<>>
              /\ db = scopes[t][1].pre
              /\ \A t2 \in Threads \ {t} : View(t2) = scopes[t][1].pre
    /\ (LeftOutermost /\ ev.sql = "COMMIT") =>
          /\ \A t \in Threads : View(t) = db
          /\ \A k \in Keys :
                getitem(db, k) = IF ev.wr[k].depth > 0 THEN ev.wr[k].val
                                 ELSE getitem(ev.pre, k)

\* a thread's open transaction holds a key the committed table lacks, while
\* another thread waits for its own transaction to begin
C27_Witness ==
    \E t \in Threads, t2 \in Threads, k \in Keys :
        /\ lock = t
        /\ contains(work, k)
        /\ ~contains(db, k)
        /\ pc[t2] = "begin"

\* C29 (as the code has it): an exception that leaves a thread's outermost scope
\* rolls the transaction back before it reaches the caller; an exception that
\* leaves a nested scope issues no ROLLBACK: the transaction stays open and the
\* thread still reads everything it wrote, the nested scope's writes included.
C29_OnlyOutermostRollsBack ==
    (ev.what = "leave" /\ ev.exc # "") =>
        /\ exc[ev.tid] = ev.exc
        /\ IF ev.begin
           THEN /\ ev.depth = 0
                /\ ev.sql = "ROLLBACK"
                /\ lock = None
                /\ db = ev.pre
           ELSE /\ ev.depth > 0
                /\ ev.sql = ""
                /\ lock = ev.tid
                /\ wr = ev.wr
                /\ \A k \in Keys : wr[k].depth > 0 =>
                      getitem(View(ev.tid), k) = wr[k].val

\* C29 (as stated): whenever an exception leaves a transact scope, outermost or
\* nested, the transaction is rolled back before the exception reaches the caller.
C29_EveryFailedScopeRollsBack ==
    (ev.what = "leave" /\ ev.exc # "") =>
        /\ ev.sql = "ROLLBACK"
        /\ lock = None

\* an exception left a nested scope in which the thread had set a key that the
\* committed table lacks; the thread still reads the key
C29_Witness ==
    /\ ev.what = "leave" /\ ev.exc # "" /\ ~ev.begin
    /\ \E k \in Keys :
          /\ ev.wr[k].depth > ev.depth
          /\ ev.wr[k].val \in Values
          /\ ~contains(db, k)
          /\ getitem(View(ev.tid), k) = ev.wr[k].val

\* C30: a thread has an open scope exactly when its connection holds the engine's
\* transaction and the owner marker names it; exactly its outermost scope began the
\* transaction; BEGIN is issued by a thread without a scope; leaving the outermost
\* scope issues COMMIT or ROLLBACK and leaves the thread without scope, transaction
\* and marker; and a begin that fails with BusyError leaves it so too.
C30_IdleActiveIdle ==
    /\ \A t \in Threads :
          /\ scopes[t] # <<>> <=> lock = t
          /\ lock = t <=> txn_id = t
          /\ Cardinality({i \in DOMAIN scopes[t] : scopes[t][i].begin}) <= 1
          /\ scopes[t] # <<>> => scopes[t][1].begin
    /\ ev.what = "begin" =>
          /\ ev.sql = "BEGIN"
          /\ Len(scopes[ev.tid]) = 1
          /\ lock = ev.tid
    /\ (ev.what = "leave" /\ ev.depth = 0) =>
          /\ ev.begin
          /\ ev.sql \in {"COMMIT", "ROLLBACK"}
          /\ scopes[ev.tid] = <<>>
          /\ ~AlreadyInside(ev.tid)
    /\ ev.what = "busy" =>
          /\ ev.exc = "BusyError"
          /\ scopes[ev.tid] = <<>>
          /\ pc[ev.tid] = "run"
          /\ ~AlreadyInside(ev.tid)

\* a thread without a scope entered one and issued BEGIN on a store that holds a
\* committed entry, after an earlier call, while no other thread is in a call or a
\* scope
C30_Witness ==
    /\ ev.what = "begin"
    /\ calls > 1
    /\ db # <<>>
    /\ \A t \in Threads \ {ev.tid} : pc[t] = "run" /\ scopes[t] = <<>>

\* the calls that were returned the entry of key k
Takers(k) == {i \in DOMAIN taken : taken[i].key = k}

\* C28: among threads that pop from one store, each stored entry is returned to at
\* most one caller and is gone from the store once it is returned; a pop of a key
\* that ends returns the key's value if no call took the entry before, and else
\* raises KeyError or returns its default; a popitem that ends returns the last
\* entry the store held, or raises KeyError on an empty store.
C28_EachEntryTakenOnce ==
    /\ \A k \in Keys : Cardinality(Takers(k)) <= 1
    /\ \A i \in DOMAIN taken : ~contains(db, taken[i].key)
    /\ (ev.what = "leave" /\ ev.op = "pop") =>
          IF Takers(ev.key) \ {Len(taken)} = {} /\ contains(ev.pre, ev.key)
          THEN /\ ev.exc = ""
               /\ ev.ret = getitem(ev.pre, ev.key)
               /\ taken[Len(taken)] = [tid |-> ev.tid, key |-> ev.key, value |-> ev.ret]
          ELSE /\ ~contains(ev.pre, ev.key)
               /\ ev.ret = ev.value
               /\ ev.exc = IF ev.value = MISSING THEN "KeyError" ELSE ""
    /\ (ev.what = "leave" /\ ev.op = "popitem") =>
          IF ev.pre = <<>>
          THEN ev.exc = "KeyError"
          ELSE /\ ev.exc = ""
               /\ ev.ret = <<ev.pre[Len(ev.pre)].key, ev.pre[Len(ev.pre)].value>>
               /\ taken[Len(taken)] = [tid |-> ev.tid, key |-> ev.ret[1],
                                       value |-> ev.ret[2]]

\* two pops of one stored key are in flight: one thread has read the entry inside
\* its transaction, while the other waits for the write lock
C28_Witness ==
    \E t \in Threads, t2 \in Threads :
        /\ pc[t] = "got"
        /\ call[t].op = "pop"
        /\ pc[t2] = "begin"
        /\ call[t2].op = "pop"
        /\ call[t2].key = call[t].key
        /\ contains(db, call[t].key)

\* C25: when clear returns, in a single-threaded run, the store is empty whatever
\* it held: len is 0, iteration in either direction yields nothing and no key is
\* contained; and the call after it finds what a new store holds: a set or an add
\* leaves its entry alone in the store (under key 1 when an integer store assigns
\* the key), and getitem, pop without default and popitem raise KeyError.
C25_ClearEmptiesStore ==
    /\ res.op = "clear" =>
          /\ res.exc = ""
          /\ lenOn(tab).ret = <<0>>
          /\ iterOn(tab).ret = <<>>
          /\ reversedOn(tab).ret = <<>>
          /\ \A k \in KeysOf(key_type) : ~contains(tab, k)
    /\ res.prev.op = "clear" =>
          /\ res.pre = <<>>
          /\ res.op \in {"set", "add"} =>
                /\ Len(tab) = 1
                /\ tab[1].value = res.value
                /\ tab[1].key = IF res.key = None THEN 1 ELSE res.key
          /\ res.op \in {"getitem", "popitem"} => res.exc = "KeyError"
          /\ (res.op = "pop" /\ res.value = MISSING) => res.exc = "KeyError"

\* clear returned on a store that held two entries
C25_Witness ==
    /\ res.op = "clear"
    /\ Len(res.pre) = 2
    /\ tab = <<>>

\* the expiration a set is called with, the cache's default standing in for None
Expire == IF ev.value.expire = None THEN default_expiration ELSE ev.value.expire

\* C26: after set(k, v, expire=e) the entry of k carries v and, for e > 0, the
\* expiry instant "time of the set + e", for e = 0 none, the cache's default
\* expiration standing in for an e not given; get(k) returns the entry's value at
\* every time before its expiry instant and when it has none, and returns the
\* default at every time after it and when the key has no entry.
C26_CacheExpiry ==
    /\ ev.op = "cache.set" =>
          /\ loads(getitem(db, ev.key).value) = ev.value.value
          /\ getitem(db, ev.key).expires_at = IF Expire > 0 THEN now + Expire ELSE 0
    /\ ev.op = "cache.get" =>
          LET row == getitem(db, ev.key)
          IN /\ ~contains(db, ev.key) => ev.ret = ev.value
             /\ contains(db, ev.key) =>
                   /\ (row.expires_at = 0 \/ now < row.expires_at) =>
                         ev.ret = loads(row.value)
                   /\ (row.expires_at # 0 /\ now > row.expires_at) =>
                         ev.ret = ev.value

\* get returned the default for a key whose entry is still stored and has expired:
\* its expiry instant is that of a set at time 0 with the cache's default expiration
C26_Witness ==
    /\ ev.op = "cache.get"
    /\ contains(db, ev.key)
    /\ getitem(db, ev.key).expires_at = default_expiration
    /\ default_expiration > 0
    /\ now > default_expiration
    /\ ev.ret = None

\* C24: constructing a store with a value class that extends the table's columns
\* by trailing fields with defaults keeps every row: the rows and their keys are
\* the same, each row has its former columns unchanged and the declared default in
\* each new column; afterwards the table has the fields of every instance
\* constructed so far, and a getitem through any of them, the original class
\* included, returns the row's values of that class's fields.
C24_MigrationKeepsRows ==
    /\ ev.what = "init" =>
          /\ Len(db) = Len(ev.pre)
          /\ \A i \in DOMAIN db :
                /\ db[i].key = ev.pre[i].key
                /\ \A c \in Names(columns) :
                      db[i].value[c] = IF c \in Names(ev.held) THEN ev.pre[i].value[c]
                                       ELSE FieldDefault[c]
    /\ \A cls \in stores : Names(cls) \subseteq Names(columns)
    /\ (ev.op = "getitem" /\ ev.what = "stmt" /\ contains(db, ev.key)) =>
          /\ ev.exc = ""
          /\ Len(ev.ret) = Len(ev.pairs)
          /\ \A i \in DOMAIN ev.pairs : ev.ret[i] = getitem(db, ev.key)[ev.pairs[i]]

\* a store was constructed with a class of three fields on a table of one column
\* that held two rows
C24_Witness ==
    /\ ev.what = "init"
    /\ Len(ev.pairs) = 3
    /\ Len(ev.held) = 1
    /\ Len(db) = 2
    /\ \A i \in DOMAIN db : db[i].value["number"] = FieldDefault["number"]

\* C21: close() closes the handle of the calling thread's connection and drops it
\* from the thread's state, and changes no other handle, no other thread's state
\* and no connection; without a connection it changes nothing; and the next
\* statement of a thread that has no connection runs on a connection opened for it
\* by that access, open in that thread, and reads the table as committed.
C21_CloseOnlyOwnConnection ==
    [][/\ cev'.what = "close" =>
            LET p == cev'.proc
                t == cev'.tid
            IN /\ handles' = handles \ {<<p, t, local[p][t].con>>}
               /\ local'[p][t] = [local[p][t] EXCEPT !.con = None]
               /\ \A p2 \in Procs, t2 \in Threads :
                     <<p2, t2>> # <<p, t>> => local'[p2][t2] = local[p2][t2]
               /\ conns' = conns
               /\ local[p][t].con = None => (handles' = handles /\ local' = local)
       /\ (cev'.what \in {"stmt", "begin"} /\ local[cev'.proc][cev'.tid].con = None) =>
            /\ cev'.made
            /\ cev'.con = Len(conns')
            /\ cev'.con > Len(conns)
            /\ local'[cev'.proc][cev'.tid].con = cev'.con
            /\ <<cev'.proc, cev'.tid, cev'.con>> \in handles'
            /\ cev'.saw = db]_vars

\* a thread of a DiskStore that had closed its connection ran a statement on a new
\* one and read the row written meanwhile, and another thread of the process holds
\* an open connection
C21_Witness ==
    /\ klass = "DiskStore"
    /\ cev.what = "stmt"
    /\ cev.made
    /\ cev.had = [pid |-> cev.proc, con |-> None]
    /\ cev.saw # <<>>
    /\ \E t \in Threads \ {cev.tid} :
          /\ local[cev.proc][t].con # None
          /\ <<cev.proc, t, local[cev.proc][t].con>> \in handles

\* C22: every connection of a DiskStore carries the store's configured pragmas,
\* which are the defaults updated by the caller's options, from the access that
\* opens it: the connection of the constructing thread, and whatever connection a
\* statement or a BEGIN runs on, be it opened at a thread's first use, after a
\* close or after a fork was detected.
C22_PragmasOnEveryConnection ==
    klass = "DiskStore" =>
        /\ \A name \in DOMAIN DEFAULT_PRAGMAS : name \in DOMAIN pragmas
        /\ cev.what = "init" =>
              /\ \A name \in DOMAIN cev.opts : pragmas[name] = cev.opts[name]
              /\ \A name \in DOMAIN DEFAULT_PRAGMAS \ DOMAIN cev.opts :
                    pragmas[name] = DEFAULT_PRAGMAS[name]
              /\ DOMAIN pragmas = DOMAIN DEFAULT_PRAGMAS \cup DOMAIN cev.opts
        /\ \A c \in DOMAIN conns : conns[c].pragmas = pragmas
        /\ cev.what \in {"init", "stmt", "begin"} => conns[cev.con].pragmas = pragmas

\* in a store constructed with options, a forked child's statement ran on a
\* connection opened after the fork was detected, and the connection has the
\* overridden and the added pragma
C22_Witness ==
    /\ klass = "DiskStore"
    /\ cev.what = "stmt"
    /\ cev.made
    /\ cev.had.pid \notin {None, cev.proc}
    /\ cev.had.con # None
    /\ conns[cev.con].pragmas.synchronous = 0
    /\ conns[cev.con].pragmas.foreign_keys = 1

\* C23: no step of a DiskRead changes the file or the table, and its connections
\* are read-only; its construction opens no connection; while the file is absent
\* every access of it raises, opens no connection and leaves the file absent; and
\* the construction of a DiskStore leaves the file with the table and the
\* constructing thread with an open connection.
C23_ReadOnlyNeverCreates ==
    [][/\ klass' = "DiskRead" =>
            /\ file' = file
            /\ db' = db
            /\ \A c \in DOMAIN conns' : conns'[c].readonly
       /\ (klass = "" /\ klass' = "DiskRead") =>
            /\ conns' = <<>>
            /\ handles' = {}
            /\ local' = local
       /\ (klass = "DiskRead" /\ file = "absent") =>
            /\ cev'.what \in {"init", "error", "close", "fork"}
            /\ conns' = <<>>
            /\ handles' = {}
            /\ file' = "absent"
       /\ (klass = "" /\ klass' = "DiskStore") =>
            /\ file' = "table"
            /\ local'[1][1].con # None
            /\ <<1, 1, local'[1][1].con>> \in handles'
            /\ ~conns'[local'[1][1].con].readonly]_vars

\* a DiskRead on an absent file was accessed in a second thread: the access raised,
\* the file is absent and there is no connection
C23_Witness ==
    /\ klass = "DiskRead"
    /\ file = "absent"
    /\ cev.what = "error"
    /\ cev.tid # 1
    /\ cev.con = None
    /\ conns = <<>>

\* the last call wrote key res.key with the SET statement
Overwrote == res.op \in {"set", "update"} /\ HasKey(res.pre, res.key)

\* the last two calls removed a present key and set it again
SetAgain ==
    /\ res.prev.op = "pop"
    /\ res.prev.key = res.key
    /\ res.op \in {"set", "update"}
    /\ ~HasKey(res.pre, res.key)
    /\ Len(res.pre) < res.prevlen

\* C39: set or update of a present key changes that row's value and nothing else:
\* every row keeps its rowid and its place, iteration yields the same keys in the
\* same order, and popitem's row is the same key as before. A key that was removed
\* and is set again is the last of the order for the BLOB, TEXT and REAL key types;
\* for the INTEGER key type it takes the place of its value among the keys.
C39_OverwriteKeepsPosition ==
    /\ Overwrote =>
          /\ Len(tab) = Len(res.pre)
          /\ ITER(tab) = ITER(res.pre)
          /\ REVERSED(tab) = REVERSED(res.pre)
          /\ POPITEM(tab)[1].key = POPITEM(res.pre)[1].key
          /\ \A i \in 1..Len(tab) :
                /\ tab[i].rowid = res.pre[i].rowid
                /\ tab[i].value = IF tab[i].key = res.key THEN res.value
                                  ELSE res.pre[i].value
    /\ (SetAgain /\ key_type # "INTEGER") => tab[Len(tab)].key = res.key
    /\ (SetAgain /\ key_type = "INTEGER") => Ascending(ITER(tab))

\* C39 as stated: a key that was removed and is set again is the last of the order,
\* whatever the key type
C39_SetAgainMovesToEnd == SetAgain => tab[Len(tab)].key = res.key

\* the first of two rows was overwritten with another value and is still the first
C39_Witness ==
    /\ Overwrote
    /\ Len(tab) > 1
    /\ tab[1].key = res.key
    /\ tab[1].value # res.pre[1].value

\* C32: the construction of a store leaves the table with its former columns, in
\* their order and under their names, followed by the fields of the class it did
\* not have; when it had them all, the columns and the rows are as they were.
C32_MigrationAdditive ==
    ev.what = "init" =>
        /\ Names(columns) = Names(ev.held) \cup Names(ev.pairs)
        /\ Len(columns) >= Len(ev.held)
        /\ \A i \in DOMAIN ev.held : columns[i] = ev.held[i]
        /\ Names(ev.pairs) \subseteq Names(ev.held) =>
              /\ columns = ev.held
              /\ db = ev.pre

\* a store was constructed with a class of fewer fields than the table has columns,
\* on a table that holds a row
C32_Witness ==
    /\ ev.what = "init"
    /\ Len(ev.pairs) < Len(ev.held)
    /\ columns = ev.held
    /\ db # <<>>

\* C33: every column of a field with a default carries it as its declared default,
\* and the SET statement of an instance whose class has fewer fields than the
\* table has columns does not fail and leaves a key that was absent with the
\* defaults in the columns the class does not have.
C33_EveryColumnHasDefault ==
    /\ Names(columns) \cap DOMAIN FieldDefault \subseteq declared
    /\ (ev.what = "stmt" /\ ev.op = "set" /\ Len(ev.pairs) < Len(columns)) =>
          /\ ev.exc = ""
          /\ contains(db, ev.key)
          /\ ~contains(ev.pre, ev.key) =>
                \A c \in Names(columns) \ Names(ev.pairs) :
                    getitem(db, ev.key)[c] = FieldDefault[c]

\* the table was created with two or more columns, and the SET statement of an
\* instance of a class with fewer fields failed and wrote nothing
C33_Witness ==
    /\ ev.what = "stmt"
    /\ ev.op = "set"
    /\ ev.exc = "ConstraintError"
    /\ Len(ev.pairs) < Len(columns)
    /\ declared # Names(columns) \cap DOMAIN FieldDefault
    /\ db = ev.pre

\* an entry get hides at time t
Hidden(row, t) == row.expires_at # 0 /\ row.expires_at <= t

\* C40: an entry get hides stays in the table until delete, delete_expired, clear
\* or set takes it: get, len, iteration, add and the passing of time leave the
\* table as it is, len counts and iteration yields every key of the table, hidden
\* or not, and add on a key of the table returns False whether or not its entry is
\* hidden, while on an absent key it returns True and stores the value;
\* delete_expired removes the entries whose expiry instant is not zero and before
\* the time of the call, and keeps every other entry, in order.
C40_ExpiredEntryOccupiesKey ==
    /\ ev.op = "cache.get" =>
          /\ db = ev.pre
          /\ (contains(db, ev.key) /\ Hidden(getitem(db, ev.key), now)) =>
                ev.ret = ev.value
    /\ ev.op = "cache.len" => (db = ev.pre /\ ev.ret = Len(ev.pre))
    /\ ev.op = "cache.iter" =>
          /\ db = ev.pre
          /\ Len(ev.ret) = Len(ev.pre)
          /\ \A i \in 1..Len(ev.pre) : ev.ret[i] = ev.pre[i].key
    /\ ev.op = "cache.add" =>
          IF contains(ev.pre, ev.key)
          THEN ev.ret = FALSE /\ db = ev.pre
          ELSE /\ ev.ret = TRUE
               /\ Len(db) = Len(ev.pre) + 1
               /\ loads(getitem(db, ev.key).value) = ev.value.value
    /\ ev.op = "cache.delete_expired" =>
          /\ \A k \in Keys :
                contains(db, k) <=>
                    /\ contains(ev.pre, k)
                    /\ ~(getitem(ev.pre, k).expires_at # 0
                           /\ getitem(ev.pre, k).expires_at < now)
          /\ \A k \in Keys : contains(db, k) => getitem(db, k) = getitem(ev.pre, k)
          /\ \A i \in 1..Len(db), j \in 1..Len(db) :
                i < j => IndexOf(ev.pre, db[i].key) < IndexOf(ev.pre, db[j].key)

\* add returned False for a key whose entry had expired before, and the entry is
\* still in the table as it was
C40_Witness ==
    /\ ev.op = "cache.add"
    /\ ev.ret = FALSE
    /\ contains(db, ev.key)
    /\ getitem(db, ev.key).expires_at # 0
    /\ getitem(db, ev.key).expires_at < now
    /\ db = ev.pre

\* C38: setdefault(k, d) with a default returns what the table holds under k when
\* it returns.
C38_SetdefaultReturnsStored ==
    (ev.what = "stmt" /\ ev.op = "setdefault" /\ ev.value # None) =>
        ev.ret = GET(db, ev.key)

\* setdefault found no entry, another thread stored one, setdefault's ADD inserted
\* nothing, and setdefault returned its default, which is not the value in the table
C38_Witness ==
    /\ ev.what = "stmt"
    /\ ev.op = "setdefault"
    /\ ev.held = <<>>
    /\ ev.ret = ev.value
    /\ contains(db, ev.key)
    /\ GET(db, ev.key) # ev.ret
    /\ db = ev.pre

\* C34: clear() called in the body of the calling thread's open scope completes
\* without error, and its removal is part of the scope's transaction: the table the
\* other connections read is as it was when the scope began.
C34_ClearJoinsTransaction ==
    (ev.what = "stmt" /\ ev.op = "clear" /\ ev.depth > 0) =>
        /\ ev.exc = ""
        /\ work = <<>>
        /\ db = scopes[ev.tid][1].pre

\* clear() ran in the body of the thread's scope on a table with rows: its DELETE
\* emptied the transaction's table, the rows are still committed, and the call raised
\* SQLError
C34_Witness ==
    /\ ev.what = "stmt"
    /\ ev.op = "clear"
    /\ ev.depth > 0
    /\ lock = ev.tid
    /\ ev.pre # <<>>
    /\ work = <<>>
    /\ db # <<>>
    /\ ev.exc = "SQLError"
    /\ exc[ev.tid] = "SQLError"

\* what thread t reads under its own key
Own(t) == GET(View(t), OwnKey(t))

\* C31: threads that use pairwise distinct keys of one store do not interfere. No
\* step but the completion of a thread's own call changes what the thread reads
\* under its key; its set leaves the value it set, its delete leaves the key absent,
\* its read returns what it left there, and leaving a scope without ROLLBACK keeps
\* it; a call
\* raises BusyError only after a wait of the busy timeout, and KeyError only when
\* the thread itself left its key absent.
C31_OwnKeysDoNotInterfere ==
    [][\A t \in Threads :
          LET before == Own(t)
              after == GET(IF lock' = t THEN work' ELSE db', OwnKey(t))
              e == ev'
          IN IF e.tid # t THEN after = before
             ELSE CASE e.what = "stmt" /\ e.op = "set" ->
                         e.exc = "" /\ after = e.value
                    [] e.what = "stmt" /\ e.op = "delete" ->
                         /\ after = MISSING
                         /\ e.exc = (IF before = MISSING THEN "KeyError" ELSE "")
                    [] e.what = "stmt" /\ e.op = "getitem" ->
                         /\ after = before
                         /\ e.ret = (IF before = MISSING THEN None ELSE before)
                         /\ e.exc = (IF before = MISSING THEN "KeyError" ELSE "")
                    [] e.what = "busy" ->
                         /\ after = before
                         /\ now >= attempt[t] + timeout
                    [] e.what = "begin" -> e.exc = "" /\ after = before
                    [] e.what = "leave" -> e.sql # "ROLLBACK" => after = before
                    [] OTHER -> FALSE]_vars

\* a thread read the value it had set under its key, outside any scope, while the
\* other thread's transaction is open
C31_Witness ==
    /\ ev.what = "stmt"
    /\ ev.op = "getitem"
    /\ ev.key = OwnKey(ev.tid)
    /\ ev.ret \in Values
    /\ ev.ret = GET(db, ev.key)
    /\ lock \in Threads \ {ev.tid}
    /\ GET(work, ev.key) = ev.ret

\* a scope of a store on a file never fails its assertion
FileAssertionsHold ==
    filename = "file" => \A t \in Threads : exc[t] # "AssertionError"

\* C35: no scope fails the assertion on the marker when it is left, and a thread in
\* an open scope of its own enters a nested scope without BEGIN, whatever the store
\* is opened on.
C35_AssertionsNeverFail ==
    /\ \A t \in Threads : exc[t] # "AssertionError"
    /\ (ev.what \in {"begin", "enter"} /\ ev.entered > 0) => ev.what = "enter"

\* on an in-memory store a thread left the scope that began its transaction while
\* the marker held the other thread's id: AssertionError, and its transaction is
\* still open
C35_Witness ==
    /\ filename = ":memory:"
    /\ ev.what = "leave"
    /\ ev.begin
    /\ ev.exc = "AssertionError"
    /\ exc[ev.tid] = "AssertionError"
    /\ txn_id \in Threads \ {ev.tid}
    /\ ev.tid \in begun

\* C37: no call the thread makes on one of its two stores raises BusyError or
\* waits, whatever scope of the other store is open.
C37_SecondInstanceNotBlocked ==
    (ev.tid = Tid /\ ev.store # None) => (ev.exc # "BusyError" /\ now = ev.entered)

\* the thread, in the scope of one store that began a transaction, called
\* transact(retry=True) of its other store: the call ended with BusyError after the
\* whole retry time
C37_Witness ==
    /\ ev.what = "busy"
    /\ ev.op = "transact"
    /\ ev.retry
    /\ ev.exc = "BusyError"
    /\ frames # <<>>
    /\ frames[Len(frames)].begin
    /\ frames[Len(frames)].store # ev.store
    /\ lock = frames[Len(frames)].store
    /\ marker[ev.store] = None
    /\ now >= ev.entered + TIMEOUT

\* C36: in a forked child every outermost transact scope issues BEGIN on the
\* child's own connection, and ends with ROLLBACK when it is left by an exception.
C36_ChildBeginsOwnTransaction ==
    /\ (ev.what \in {"enter", "begin"} /\ ev.store \in Procs \ {1} /\ ev.depth = 1) =>
           (ev.what = "begin" /\ lock = ev.store /\ local[ev.store][Tid].con = ev.store)
    /\ (ev.what = "leave" /\ ev.store \in Procs \ {1} /\ ev.depth = 0 /\ ev.exc # "") =>
           ev.sql = "ROLLBACK"

\* a child forked inside the parent's scope entered its outermost scope, after the
\* parent's transaction had ended, without BEGIN; the scope was left by an exception
\* with no ROLLBACK, and the table holds what the child wrote in it
C36_Witness ==
    /\ ev.what = "leave"
    /\ ev.store \in Procs \ {1}
    /\ ev.depth = 0
    /\ ev.exc = "Error"
    /\ ~ev.begin
    /\ ev.sql = ""
    /\ ev.retried
    /\ marker[ev.store] = Tid
    /\ local[ev.store][Tid].con = ev.store
    /\ lock = None
    /\ db # ev.pre

====
